---- MODULE Spec2Model ----
(***************************************************************************)
(* Discrete-event simulation kernel of pysim (pysim/sim/simulator.py):     *)
(* the EventQueue (a heapq of [time, event_id, task] entries with lazy     *)
(* cancellation), the Kernel (clock, stop conditions, run loop) and the    *)
(* Simulator facade through which the initializer and the handlers         *)
(* schedule, cancel and stop.                                              *)
(*                                                                         *)
(* Model time is a float in the code; here it is an integer.  Handlers are *)
(* arbitrary callables: a running handler (or the initializer) may make    *)
(* any sequence of facade calls before it returns.                         *)
(*                                                                         *)
(* The second half is the RFID model that runs on the kernel               *)
(* (pysim/models/rfid): the Q controller of the reader (adjust_algs.py,    *)
(* apply_query_adjust) and the handlers of handlers.py, each one iteration *)
(* of the run loop, on the Model that configurator.create_model builds.    *)
(***************************************************************************)
EXTENDS Integers, Sequences, FiniteSets, TLC

\* ------------------------------------------------------------------------
\* Bounds of the model
\* ------------------------------------------------------------------------
\* number of events that may be scheduled in one run (caps itertools.count)
MaxIds == 3

\* ------------------------------------------------------------------------
\* Values
\* ------------------------------------------------------------------------
\* Python's None where a handler, a task or an exit reason is expected
None == "None"
\* an optional number: Nothing is Python's None, Some(v) the number v
Nothing == <<>>
Some(v) == <<v>>
Val(o) == o[1]
\* a local variable that was never assigned
Unbound == <<"unbound local">>

\* ExitReason members (simulator.py, class ExitReason)
NO_MORE_EVENTS == "NO_MORE_EVENTS"
REACHED_REAL_TIME_LIMIT == "REACHED_REAL_TIME_LIMIT"
REACHED_SIM_TIME_LIMIT == "REACHED_SIM_TIME_LIMIT"
STOPPED == "STOPPED"
INTERRUPTED == "INTERRUPTED"
ExitReason ==
    {NO_MORE_EVENTS, REACHED_REAL_TIME_LIMIT, REACHED_SIM_TIME_LIMIT,
     STOPPED, INTERRUPTED}

\* handlers a model registers (the Echo model of test_echo1.py schedules
\* handle_timeout after a delay and starts handle_service through call()),
\* the delays and the stop messages it uses
ScheduledHandlers == {"handle_timeout"}
CalledHandlers == {"handle_service"}
Handlers == ScheduledHandlers \cup CalledHandlers
Delays == {-1, 0, 1}
StopMessages == {"foobar"}
\* the context object handed to build_simulation
Model == "model"
\* readings of the wall clock, time.time() - _t_start, below and above the
\* real-time limit
RealTimeReadings == {0, 2}
\* ceilings a caller of build_simulation may configure
SimTimeLimits == {Nothing, Some(1)}
RealTimeLimits == {Nothing, Some(1)}
NumEventsLimits == {Nothing, Some(1)}
\* arguments a handler passes to schedule() and cancel()
DelayArgs == {Some(d) : d \in Delays} \cup {Nothing}
CancelArgs == {Some(i) : i \in 0..MaxIds} \cup {Nothing}
\* the delays of a model that never schedules into the past
ForwardDelayArgs == {Some(d) : d \in {e \in Delays : e >= 0}} \cup {Nothing}

VARIABLES
    \* EventQueue
    event_list,         \* _event_list: the heap, a sequence of entries
    event_dict,         \* _event_dict: the keys, ids of the live events
    next_id,            \* _next_id: the next value of itertools.count()
    \* Kernel
    sim_time,           \* _sim_time
    max_sim_time,       \* _max_sim_time
    max_real_time,      \* _max_real_time
    max_num_events,     \* _max_num_events
    user_stop,          \* _user_stop
    stop_reason,        \* stop_reason
    stop_msg,           \* stop_msg
    num_events_served,  \* _num_events_served
    lhandler,           \* lhandler
    finalize,           \* _finalize: TRUE when a finalizer is registered
    context,            \* sim.context
    \* build_runner
    pc,                 \* position of build_runner
    cur,                \* the event whose handler is running
    fin_ret,            \* local fin_ret of build_runner
    result,             \* the tuple build_runner yields
    \* observation of the run
    last_call,          \* the last facade call and what it returned
    dispatched,         \* ids whose handler the run loop invoked
    cancelled,          \* ids for which Kernel.cancel returned 1
    fin_calls           \* how many times the finalizer was invoked

queue_vars == <<event_list, event_dict, next_id>>
config_vars == <<max_sim_time, max_real_time, max_num_events, finalize>>
stop_vars == <<user_stop, stop_reason, stop_msg>>
run_vars == <<num_events_served, lhandler, fin_ret, result, fin_calls>>
vars ==
    <<event_list, event_dict, next_id, sim_time, max_sim_time, max_real_time,
      max_num_events, user_stop, stop_reason, stop_msg, num_events_served,
      lhandler, finalize, context, pc, cur, fin_ret,
      result, last_call, dispatched, cancelled, fin_calls>>

NoCall == [op |-> "none"]

\* ------------------------------------------------------------------------
\* heapq on [time, event_id, task] lists
\* ------------------------------------------------------------------------
\* a queue whose entries carry no insertion sequence: compared by time alone
EventLess_TimeOnly(a, b) == a.time < b.time

\* list comparison a < b of two heap entries: ids are unique, so the task
\* is never compared
EventLess(a, b) ==
    \/ a.time < b.time
    \/ a.time = b.time /\ a.id < b.id

\* heap[pos] with the 0-based positions of the code
At(heap, pos) == heap[pos + 1]
Put(heap, pos, item) == [heap EXCEPT ![pos + 1] = item]

\* heapq._siftdown(heap, startpos, pos) carrying newitem
RECURSIVE SiftDownLoop(_, _, _, _)
SiftDownLoop(heap, startpos, pos, newitem) ==
    IF pos > startpos
    THEN LET parentpos == (pos - 1) \div 2
             parent == At(heap, parentpos)
         IN  IF EventLess(newitem, parent)
             THEN SiftDownLoop(Put(heap, pos, parent), startpos, parentpos,
                               newitem)
             ELSE Put(heap, pos, newitem)
    ELSE Put(heap, pos, newitem)

SiftDown(heap, startpos, pos) ==
    SiftDownLoop(heap, startpos, pos, At(heap, pos))

\* heapq._siftup(heap, pos): move the smaller child up until a leaf, then
\* sift the displaced item down from there
RECURSIVE SiftUpLoop(_, _, _, _)
SiftUpLoop(heap, startpos, pos, newitem) ==
    LET endpos == Len(heap)
        childpos == 2 * pos + 1
    IN  IF childpos < endpos
        THEN LET rightpos == childpos + 1
                 c == IF rightpos < endpos
                         /\ ~EventLess(At(heap, childpos), At(heap, rightpos))
                      THEN rightpos
                      ELSE childpos
             IN  SiftUpLoop(Put(heap, pos, At(heap, c)), startpos, c, newitem)
        ELSE SiftDown(Put(heap, pos, newitem), startpos, pos)

SiftUp(heap, pos) == SiftUpLoop(heap, pos, pos, At(heap, pos))

\* heapq.heappush(heap, item): the new heap
HeapPush(heap, item) ==
    SiftDown(Append(heap, item), 0, Len(heap))

\* heapq.heappop(heap): the item returned and the new heap
HeapPop(heap) ==
    LET lastelt == heap[Len(heap)]
        rest == SubSeq(heap, 1, Len(heap) - 1)
    IN  IF rest # <<>>
        THEN [item |-> rest[1], heap |-> SiftUp(Put(rest, 0, lastelt), 0)]
        ELSE [item |-> lastelt, heap |-> rest]

\* ------------------------------------------------------------------------
\* EventQueue
\* ------------------------------------------------------------------------
\* EventQueue.push(time, task): the id issued and the new queue
QueuePush(heap, dict, nid, time, task) ==
    LET event == [time |-> time, id |-> nid, task |-> task]
    IN  [event_id |-> nid,
         heap |-> HeapPush(heap, event),
         dict |-> dict \cup {nid},
         next |-> nid + 1]

\* the while loop of EventQueue.pop: heappop until a live entry comes out
RECURSIVE PopLive(_)
PopLive(heap) ==
    LET r == HeapPop(heap)
    IN  IF r.item.task = None THEN PopLive(r.heap) ELSE r

\* EventQueue.pop() on a non-empty queue: (time, event_id, task) and the
\* new queue
QueuePop(heap, dict) ==
    LET r == PopLive(heap)
    IN  [time |-> r.item.time, event_id |-> r.item.id, task |-> r.item.task,
         heap |-> r.heap, dict |-> dict \ {r.item.id}]

\* a cancel that drops the dict entry and leaves the heap entry as it was
MarkRemoved_Forgets(heap, event_id) == heap

\* event[-1] = None on the entry the dict and the heap share
MarkRemoved(heap, event_id) ==
    [i \in 1..Len(heap) |->
        IF heap[i].id = event_id THEN [heap[i] EXCEPT !.task = None]
        ELSE heap[i]]

\* EventQueue.cancel(event_id): the new queue
QueueCancel(heap, dict, event_id) ==
    IF event_id # Nothing /\ Val(event_id) \in dict
    THEN [heap |-> MarkRemoved(heap, Val(event_id)),
          dict |-> dict \ {Val(event_id)}]
    ELSE [heap |-> heap, dict |-> dict]

\* EventQueue.empty
Empty(dict) == Cardinality(dict) = 0

\* ------------------------------------------------------------------------
\* Initial state: a Kernel as build_simulation configures it
\* ------------------------------------------------------------------------
Init ==
    /\ event_list = <<>>
    /\ event_dict = {}
    /\ next_id = 0
    /\ sim_time = 0
    /\ max_sim_time \in SimTimeLimits
    /\ max_real_time \in RealTimeLimits
    /\ max_num_events \in NumEventsLimits
    /\ finalize \in BOOLEAN
    /\ user_stop = FALSE
    /\ stop_reason = None
    /\ stop_msg = ""
    /\ num_events_served = Nothing
    /\ lhandler = None
    /\ context = Model
    /\ pc = "start"
    /\ cur = Nothing
    /\ fin_ret = Unbound
    /\ result = Nothing
    /\ last_call = NoCall
    /\ dispatched = {}
    /\ cancelled = {}
    /\ fin_calls = 0

\* a handler or the initializer is executing and may call the facade
InCallback == pc \in {"initializer", "handler"}

\* an event that was scheduled and neither dispatched nor cancelled yet
Pending(event_id) ==
    /\ event_id # Nothing
    /\ Val(event_id) \in 0..(next_id - 1)
    /\ Val(event_id) \notin dispatched
    /\ Val(event_id) \notin cancelled

\* ------------------------------------------------------------------------
\* Facade calls made by the running callback
\* ------------------------------------------------------------------------
\* Kernel.schedule(delay, handler) through Simulator.schedule
Schedule(delay, handler) ==
    /\ InCallback
    /\ next_id < MaxIds
    /\ IF delay # Nothing
       THEN LET q == QueuePush(event_list, event_dict, next_id,
                               sim_time + Val(delay), handler)
            IN  /\ event_list' = q.heap
                /\ event_dict' = q.dict
                /\ next_id' = q.next
                /\ last_call' = [op |-> "schedule", delay |-> delay,
                                 ret |-> Some(q.event_id), raised |-> None]
       ELSE /\ UNCHANGED queue_vars
            /\ last_call' = [op |-> "schedule", delay |-> delay,
                             ret |-> Nothing, raised |-> None]
    /\ UNCHANGED <<sim_time, config_vars, stop_vars, run_vars, context, pc, cur, dispatched, cancelled>>

\* a call that schedules the handler one time unit ahead
Call_OneAhead(handler) ==
    /\ InCallback
    /\ next_id < MaxIds
    /\ LET q == QueuePush(event_list, event_dict, next_id, sim_time + 1,
                          handler)
       IN  /\ event_list' = q.heap
           /\ event_dict' = q.dict
           /\ next_id' = q.next
           /\ last_call' = [op |-> "call", delay |-> Some(0),
                            ret |-> Some(q.event_id), raised |-> None]
    /\ UNCHANGED <<sim_time, config_vars, stop_vars, run_vars, context, pc, cur, dispatched, cancelled>>

\* Simulator.call(handler): schedule with delay 0
Call(handler) ==
    /\ InCallback
    /\ next_id < MaxIds
    /\ LET q == QueuePush(event_list, event_dict, next_id, sim_time + 0,
                          handler)
       IN  /\ event_list' = q.heap
           /\ event_dict' = q.dict
           /\ next_id' = q.next
           /\ last_call' = [op |-> "call", delay |-> Some(0),
                            ret |-> Some(q.event_id), raised |-> None]
    /\ UNCHANGED <<sim_time, config_vars, stop_vars, run_vars, context, pc, cur, dispatched, cancelled>>

\* a Kernel.cancel that tests the id for None only: it reports one event
\* cancelled for every other id
KernelCancel_Untested(heap, dict, event_id) ==
    [ret |-> IF event_id # Nothing THEN 1 ELSE 0,
     q |-> QueueCancel(heap, dict, event_id)]

\* Kernel.cancel(event_id) through Simulator.cancel
KernelCancel(heap, dict, event_id) ==
    IF event_id # Nothing /\ Val(event_id) \in dict
    THEN [ret |-> 1, q |-> QueueCancel(heap, dict, event_id)]
    ELSE [ret |-> 0, q |-> [heap |-> heap, dict |-> dict]]

Cancel(event_id) ==
    /\ InCallback
    /\ LET r == KernelCancel(event_list, event_dict, event_id)
       IN  /\ event_list' = r.q.heap
           /\ event_dict' = r.q.dict
           /\ last_call' = [op |-> "cancel", id |-> event_id, ret |-> r.ret,
                            pending |-> Pending(event_id)]
           /\ cancelled' = IF r.ret = 1 THEN cancelled \cup {Val(event_id)}
                           ELSE cancelled
    /\ UNCHANGED <<next_id, sim_time, config_vars, stop_vars, run_vars,
                   context, pc, cur, dispatched>>

\* Kernel.stop(msg) through Simulator.stop
Stop(msg) ==
    /\ InCallback
    /\ stop_reason' = STOPPED
    /\ user_stop' = TRUE
    /\ stop_msg' = msg
    /\ last_call' = [op |-> "stop", msg |-> msg]
    /\ UNCHANGED <<queue_vars, sim_time, config_vars, run_vars, context, pc, cur, dispatched, cancelled>>

\* ------------------------------------------------------------------------
\* Kernel.build_runner
\* ------------------------------------------------------------------------
\* build_runner up to the call of the initializer
RunInitializer ==
    /\ pc = "start"
    /\ num_events_served' = 0
    /\ pc' = "initializer"
    /\ UNCHANGED <<queue_vars, sim_time, config_vars, stop_vars, lhandler,
                   fin_ret, result, fin_calls, context,
                   cur, last_call, dispatched, cancelled>>

\* the initializer returns; an empty queue is recorded as the exit reason
InitializerReturn ==
    /\ pc = "initializer"
    /\ stop_reason' = IF Empty(event_dict) THEN NO_MORE_EVENTS
                      ELSE stop_reason
    /\ pc' = "loop"
    /\ last_call' = NoCall
    /\ UNCHANGED <<queue_vars, sim_time, config_vars, user_stop, stop_msg,
                   run_vars, context, cur, dispatched,
                   cancelled>>

\* stop conditions that leave out the model-time ceiling
StopConditions_NoSimLimit(rt) ==
    IF max_real_time # Nothing /\ rt > Val(max_real_time)
    THEN [stop |-> TRUE, reason |-> REACHED_REAL_TIME_LIMIT]
    ELSE IF user_stop
    THEN [stop |-> TRUE, reason |-> stop_reason]
    ELSE [stop |-> FALSE, reason |-> stop_reason]

\* a stop_conditions that compares the wall clock with the start of the run
\* when no real-time limit is configured
StopConditions_ClockWithoutLimit(rt) ==
    IF max_sim_time # Nothing /\ sim_time > Val(max_sim_time)
    THEN [stop |-> TRUE, reason |-> REACHED_SIM_TIME_LIMIT]
    ELSE IF rt > (IF max_real_time # Nothing THEN Val(max_real_time) ELSE 0)
    THEN [stop |-> TRUE, reason |-> REACHED_REAL_TIME_LIMIT]
    ELSE IF user_stop
    THEN [stop |-> TRUE, reason |-> stop_reason]
    ELSE [stop |-> FALSE, reason |-> stop_reason]

\* a stop_conditions that stops at the real-time limit without recording
\* the reason
StopConditions_RealTimeUnnamed(rt) ==
    IF max_sim_time # Nothing /\ sim_time > Val(max_sim_time)
    THEN [stop |-> TRUE, reason |-> REACHED_SIM_TIME_LIMIT]
    ELSE IF max_real_time # Nothing /\ rt > Val(max_real_time)
    THEN [stop |-> TRUE, reason |-> stop_reason]
    ELSE IF user_stop
    THEN [stop |-> TRUE, reason |-> stop_reason]
    ELSE [stop |-> FALSE, reason |-> stop_reason]

\* Kernel.stop_conditions() with the wall clock reading rt: whether the run
\* stops and the stop_reason it leaves
StopConditions(rt) ==
    IF max_sim_time # Nothing /\ sim_time > Val(max_sim_time)
    THEN [stop |-> TRUE, reason |-> REACHED_SIM_TIME_LIMIT]
    ELSE IF max_real_time # Nothing /\ rt > Val(max_real_time)
    THEN [stop |-> TRUE, reason |-> REACHED_REAL_TIME_LIMIT]
    ELSE IF user_stop
    THEN [stop |-> TRUE, reason |-> stop_reason]
    ELSE [stop |-> FALSE, reason |-> stop_reason]

\* a dispatch that calls the handler without setting the clock
Dispatch_ClockNotSet(rt) ==
    /\ pc = "loop"
    /\ ~Empty(event_dict)
    /\ LET sc == StopConditions(rt)
       IN  /\ ~sc.stop
           /\ stop_reason' = sc.reason
    /\ LET p == QueuePop(event_list, event_dict)
       IN  /\ event_list' = p.heap
           /\ event_dict' = p.dict
           /\ sim_time' = sim_time
           /\ cur' = [time |-> p.time, id |-> p.event_id, handler |-> p.task]
           /\ dispatched' = dispatched \cup {p.event_id}
    /\ pc' = "handler"
    /\ UNCHANGED <<next_id, config_vars, user_stop, stop_msg, run_vars,
                   context, last_call, cancelled>>

\* one iteration of the run loop up to the call of the handler: the loop
\* condition holds, the earliest live event is popped and the clock set
Dispatch(rt) ==
    /\ pc = "loop"
    /\ ~Empty(event_dict)
    /\ LET sc == StopConditions(rt)
       IN  /\ ~sc.stop
           /\ stop_reason' = sc.reason
    /\ LET p == QueuePop(event_list, event_dict)
       IN  /\ event_list' = p.heap
           /\ event_dict' = p.dict
           /\ sim_time' = p.time
           /\ cur' = [time |-> p.time, id |-> p.event_id, handler |-> p.task]
           /\ dispatched' = dispatched \cup {p.event_id}
    /\ pc' = "handler"
    /\ UNCHANGED <<next_id, config_vars, user_stop, stop_msg, run_vars,
                   context, last_call, cancelled>>

\* a return to the run loop that does not count the event
HandlerReturn_NotCounted ==
    /\ pc = "handler"
    /\ num_events_served' = num_events_served
    /\ lhandler' = cur.handler
    /\ cur' = Nothing
    /\ last_call' = NoCall
    /\ pc' = "loop"
    /\ UNCHANGED <<queue_vars, sim_time, config_vars, stop_vars, fin_ret,
                   result, fin_calls, context, dispatched,
                   cancelled>>

\* the handler returns to the run loop
HandlerReturn ==
    /\ pc = "handler"
    /\ num_events_served' = num_events_served + 1
    /\ lhandler' = cur.handler
    /\ cur' = Nothing
    /\ last_call' = NoCall
    /\ pc' = "loop"
    /\ UNCHANGED <<queue_vars, sim_time, config_vars, stop_vars, fin_ret,
                   result, fin_calls, context, dispatched,
                   cancelled>>

\* the loop condition fails: the queue is empty or a stop condition holds
LoopExit(rt) ==
    /\ pc = "loop"
    /\ IF Empty(event_dict)
       THEN UNCHANGED stop_reason
       ELSE LET sc == StopConditions(rt)
            IN  /\ sc.stop
                /\ stop_reason' = sc.reason
    /\ pc' = "finalize"
    /\ UNCHANGED <<queue_vars, sim_time, config_vars, user_stop, stop_msg,
                   run_vars, context, cur, last_call, dispatched, cancelled>>

\* what a finalizer returns: a value computed from the context
FinalizerResult(ctx) == <<"fin", ctx>>

\* the ExecutionStats build_runner yields
ExecutionStats ==
    [num_events_processed |-> num_events_served,
     sim_time |-> sim_time,
     exit_reason |-> stop_reason,
     stop_message |-> stop_msg,
     last_handler |-> lhandler]

\* an end of build_runner that runs the finalizer only when nobody called
\* stop()
FinalizeAndYield_NotAfterStop ==
    /\ pc = "finalize"
    /\ IF finalize /\ ~user_stop
       THEN /\ fin_ret' = FinalizerResult(context)
            /\ fin_calls' = fin_calls + 1
       ELSE UNCHANGED <<fin_ret, fin_calls>>
    /\ IF fin_ret' = Unbound
       THEN /\ pc' = "UnboundLocalError"
            /\ UNCHANGED result
       ELSE /\ pc' = "done"
            /\ result' = <<ExecutionStats, context, fin_ret'>>
    /\ UNCHANGED <<queue_vars, sim_time, config_vars, stop_vars,
                   num_events_served, lhandler, context, cur, last_call,
                   dispatched, cancelled>>

\* the end of build_runner: the finalizer, if registered, then the yield of
\* (stats, context, fin_ret); fin_ret is assigned only under `if _finalize`
FinalizeAndYield ==
    /\ pc = "finalize"
    /\ IF finalize
       THEN /\ fin_ret' = FinalizerResult(context)
            /\ fin_calls' = fin_calls + 1
       ELSE UNCHANGED <<fin_ret, fin_calls>>
    /\ IF fin_ret' = Unbound
       THEN /\ pc' = "UnboundLocalError"
            /\ UNCHANGED result
       ELSE /\ pc' = "done"
            /\ result' = <<ExecutionStats, context, fin_ret'>>
    /\ UNCHANGED <<queue_vars, sim_time, config_vars, stop_vars,
                   num_events_served, lhandler, context,
                   cur, last_call, dispatched, cancelled>>

Next ==
    \/ RunInitializer
    \/ InitializerReturn
    \/ \E d \in DelayArgs, h \in ScheduledHandlers : Schedule(d, h)
    \/ \E h \in CalledHandlers : Call(h)
    \/ \E i \in CancelArgs : Cancel(i)
    \/ \E m \in StopMessages : Stop(m)
    \/ \E rt \in RealTimeReadings : Dispatch(rt)
    \/ HandlerReturn
    \/ \E rt \in RealTimeReadings : LoopExit(rt)
    \/ FinalizeAndYield

Spec == Init /\ [][Next]_vars

\* the runs of models whose callbacks pass only non-negative delays
NextForward ==
    \/ RunInitializer
    \/ InitializerReturn
    \/ \E d \in ForwardDelayArgs, h \in ScheduledHandlers : Schedule(d, h)
    \/ \E h \in CalledHandlers : Call(h)
    \/ \E i \in CancelArgs : Cancel(i)
    \/ \E m \in StopMessages : Stop(m)
    \/ \E rt \in RealTimeReadings : Dispatch(rt)
    \/ HandlerReturn
    \/ \E rt \in RealTimeReadings : LoopExit(rt)
    \/ FinalizeAndYield

SpecForward == Init /\ [][NextForward]_vars

\* ------------------------------------------------------------------------
\* Properties of the kernel
\* ------------------------------------------------------------------------
\* entries of the heap that were not cancelled
LiveEntries(heap) == {heap[i] : i \in {j \in 1..Len(heap) : heap[j].task # None}}

\* build_runner has left the run loop
Exited == pc \in {"finalize", "done", "UnboundLocalError"}

\* C1: every pop of the run loop returns the earliest live event: each event
\* left live in the queue has a later time than the popped one, or the same
\* time and a higher insertion sequence, so repeated pops come out in
\* non-decreasing time order and equal times in push order.
C1_PopOrder ==
    [][(pc = "loop" /\ pc' = "handler") =>
         \A e \in LiveEntries(event_list') :
            \/ cur'.time < e.time
            \/ cur'.time = e.time /\ cur'.id < e.id]_vars

\* C1 witness: a handler runs while an event pushed later for the same time
\* and an event pushed earlier for a later time are both still live
C1_Witness ==
    /\ pc = "handler"
    /\ \E e \in LiveEntries(event_list) : e.time = cur.time /\ e.id > cur.id
    /\ \E e \in LiveEntries(event_list) : e.time > cur.time /\ e.id < cur.id

\* C2: Kernel.cancel returns 1 exactly when the id is pending (scheduled,
\* not yet dispatched, not yet cancelled), so a second cancel of the same id
\* returns 0, and no cancelled event is ever dispatched.
C2_CancelOnce ==
    /\ dispatched \cap cancelled = {}
    /\ last_call.op = "cancel" =>
         last_call.ret = (IF last_call.pending THEN 1 ELSE 0)

\* C2 witness: a second cancel of an id cancelled before returned 0, after
\* another event was dispatched in between
C2_Witness ==
    /\ last_call.op = "cancel"
    /\ last_call.id # Nothing
    /\ Val(last_call.id) \in cancelled
    /\ last_call.ret = 0
    /\ dispatched # {}
    /\ pc = "handler"

\* C3: the simulation clock starts at 0 and never decreases from one
\* dispatched handler to the next.
C3_ClockMonotone ==
    [][(pc = "start" => sim_time = 0) /\ sim_time' >= sim_time]_vars

\* C4: schedule() with a negative delay raises SchedulingInPastError and
\* leaves the pending events and the clock as they were.
C4_NegativeDelayRejected ==
    [][(/\ last_call'.op = "schedule"
        /\ last_call' # last_call
        /\ last_call'.delay # Nothing
        /\ Val(last_call'.delay) < 0)
       => (/\ last_call'.raised = "SchedulingInPastError"
           /\ UNCHANGED <<event_list, event_dict, sim_time>>)]_vars

\* a run configured with max_num_events and no other ceiling
OnlyMaxNumEvents ==
    /\ max_num_events # Nothing
    /\ max_sim_time = Nothing
    /\ max_real_time = Nothing

\* C5: a run configured with only max_num_events = N never dispatches more
\* than N events, and when it ends with N events dispatched and live events
\* left, its exit reason names the event-count limit (none of the other
\* reasons, and not unset).
C5_EventCountLimit ==
    (OnlyMaxNumEvents /\ pc # "start") =>
        /\ Cardinality(dispatched) <= Val(max_num_events)
        /\ (Exited /\ ~user_stop /\ event_dict # {}) =>
              stop_reason \notin (ExitReason \cup {None})

\* C6: once a handler has called stop(msg) no further handler is dispatched,
\* and the run reports exit reason STOPPED with stop_message msg, whatever
\* ceilings are configured.
C6_StopHonoured ==
    [][/\ (pc = "loop" /\ user_stop) => pc' # "handler"
       /\ (pc' = "done" /\ user_stop' /\ dispatched' # {}) =>
             /\ result'[1].exit_reason = STOPPED
             /\ result'[1].stop_message = stop_msg']_vars

\* C7 as stated: with max_sim_time = T no handler is dispatched while the
\* clock exceeds T, and a run whose clock has passed T exits with reason
\* REACHED_SIM_TIME_LIMIT.
C7_SimTimeLimit_Original ==
    [][max_sim_time # Nothing =>
         /\ (pc = "loop" /\ pc' = "handler") => sim_time <= Val(max_sim_time)
         /\ (pc = "loop" /\ pc' = "finalize"
             /\ sim_time' > Val(max_sim_time)) =>
                stop_reason' = REACHED_SIM_TIME_LIMIT]_vars

\* C7 amended: with max_sim_time = T no handler is dispatched while the clock
\* exceeds T (so at most one event later than T is dispatched), and the run
\* then exits with reason REACHED_SIM_TIME_LIMIT provided a live event is
\* still pending when the loop condition is evaluated.
C7_SimTimeLimit ==
    [][max_sim_time # Nothing =>
         /\ (pc = "loop" /\ pc' = "handler") => sim_time <= Val(max_sim_time)
         /\ (pc = "loop" /\ pc' = "finalize"
             /\ sim_time' > Val(max_sim_time) /\ event_dict' # {}) =>
                stop_reason' = REACHED_SIM_TIME_LIMIT]_vars

\* C7 witness: a run finished past the ceiling with live events left
C7_Witness ==
    /\ pc = "done"
    /\ max_sim_time # Nothing
    /\ sim_time > Val(max_sim_time)
    /\ event_dict # {}
    /\ result[1].exit_reason = REACHED_SIM_TIME_LIMIT

\* C8: a run that returns reports a named exit reason, and NO_MORE_EVENTS
\* when the loop ended on an empty queue without a stop() call.
C8_NamedExitReason ==
    pc = "done" =>
        /\ result[1].exit_reason \in ExitReason
        /\ (event_dict = {} /\ ~user_stop) =>
              result[1].exit_reason = NO_MORE_EVENTS

\* C9: a registered finalizer is invoked exactly once, when the run loop has
\* been left on whatever exit path, never before, and the value it returns
\* is the third element of the result.
C9_FinalizerOnce ==
    finalize =>
        /\ pc # "UnboundLocalError"
        /\ fin_calls = (IF pc = "done" THEN 1 ELSE 0)
        /\ pc = "done" => result[3] = FinalizerResult(result[2])

\* C9 witness: a run with a finalizer ended by stop() with events pending
C9_Witness ==
    /\ finalize
    /\ pc = "done"
    /\ user_stop
    /\ event_dict # {}
    /\ dispatched # {}
    /\ fin_calls = 1

\* C10: a run built without a finalizer completes and yields the statistics,
\* the context and None as the finalizer result.
C10_FinalizerOptional ==
    (~finalize /\ Exited /\ pc # "finalize") =>
        /\ pc = "done"
        /\ result[2] = context
        /\ result[3] = Nothing

\* ------------------------------------------------------------------------
\* RFID model (pysim/models/rfid): reader, Q-adjustment, transactions
\* ------------------------------------------------------------------------
\* The RFID model runs on the kernel above: its Model object is the context
\* of the run and its handlers are the tasks of the events.  The radio
\* channel, tag powers and slot draws are left out: which tags answer a
\* command and how long the exchange lasts are inputs of each step.

\* largest slot-count exponent (adjust_algs.py, min(15, ...))
MaxQ == 15
\* q_fp is a float in the code; here it is held in tenths
QFpScale == 10
\* delta = 0.3 of static_query_adjust, in tenths
Delta == 3

Min(a, b) == IF a < b THEN a ELSE b
Max(a, b) == IF a > b THEN a ELSE b
Abs(a) == IF a < 0 THEN -a ELSE a

\* Reader.State members named by the handlers and the states of the
\* inventory cycle
ArbitrationStates == {"QUERY", "QREP"}
ReaderStates == {"OFF", "QUERY", "QREP", "QAdjust", "ACK", "REQ_RN", "READ"}

\* values create_model may give reader.q, reader.q_fp, use_query_adjust
QValues == 0..MaxQ
QFpValues == {QFpScale * n : n \in 0..MaxQ}

\* a step of q_fp that is not held inside [0, 15]
static_query_adjust_Unclamped(q_fp, direction, q) ==
    IF direction < 0 THEN q_fp - Delta
    ELSE IF direction > 0 THEN q_fp + Delta
    ELSE q_fp

\* a step of q_fp five times as large (1.5)
static_query_adjust_LargeStep(q_fp, direction, q) ==
    IF direction < 0 THEN Max(0, q_fp - 5 * Delta)
    ELSE IF direction > 0 THEN Min(MaxQ * QFpScale, q_fp + 5 * Delta)
    ELSE q_fp

\* static_query_adjust(q_fp, direction, q): the new q_fp
static_query_adjust(q_fp, direction, q) ==
    IF direction < 0 THEN Max(0, q_fp - Delta)
    ELSE IF direction > 0 THEN Min(MaxQ * QFpScale, q_fp + Delta)
    ELSE q_fp

\* round(q_fp): repeated float additions of 0.3 leave a value printed as
\* x.5 on either side of the half, so a half may round either way
Round(q_fp, half_up) ==
    LET whole == q_fp \div QFpScale
        frac == q_fp % QFpScale
    IN  IF 2 * frac < QFpScale THEN whole
        ELSE IF 2 * frac > QFpScale THEN whole + 1
        ELSE IF half_up THEN whole + 1 ELSE whole

\* Reader.set_state(state): the reader in the new state; the frame it
\* returns is the command of that state
set_state(reader, state) == [reader EXCEPT !.state = state]

\* Reader.turn_on(): the inventory starts with a Query
turn_on(reader) == set_state(reader, "QUERY")

\* Reader.turn_off()
turn_off(reader) == set_state(reader, "OFF")

\* Reader.timeout(): the round goes on with the next slot (QREP) or a new
\* round starts (QUERY); which of the two is the input next
timeout(reader, next) == set_state(reader, next)

\* Reader.receive(frame): the reply moves the reader along the inventory
\* cycle, RN16 -> ACK, EPC -> REQ_RN, handle -> READ, memory -> next slot
receive(reader, next) ==
    set_state(reader,
        IF reader.state \in {"QUERY", "QREP", "QAdjust"} THEN "ACK"
        ELSE IF reader.state = "ACK" THEN "REQ_RN"
        ELSE IF reader.state = "REQ_RN" THEN "READ"
        ELSE next)

\* a controller that looks neither at use_query_adjust nor at the state
apply_query_adjust_Unconditional(reader, direction, half_up) ==
    LET q_fp == static_query_adjust(reader.q_fp, direction, reader.q)
        new_q == Round(q_fp, half_up)
    IN  IF Abs(reader.q - new_q) = 1
        THEN [reader |-> set_state([reader EXCEPT !.q_fp = q_fp,
                                                   !.q = new_q],
                                   "QAdjust"),
              cmd_frame |-> "QAdjust"]
        ELSE [reader |-> [reader EXCEPT !.q_fp = q_fp],
              cmd_frame |-> None]

\* a controller that sends QAdjust whenever round(q_fp) differs from q
apply_query_adjust_AnyDifference(reader, direction, half_up) ==
    IF /\ reader.use_query_adjust
       /\ reader.state \in ArbitrationStates
       /\ 0 <= reader.q /\ reader.q <= MaxQ
    THEN LET q_fp == static_query_adjust(reader.q_fp, direction, reader.q)
             new_q == Round(q_fp, half_up)
         IN  IF Abs(reader.q - new_q) >= 1
             THEN [reader |-> set_state([reader EXCEPT !.q_fp = q_fp,
                                                        !.q = new_q],
                                        "QAdjust"),
                   cmd_frame |-> "QAdjust"]
             ELSE [reader |-> [reader EXCEPT !.q_fp = q_fp],
                   cmd_frame |-> None]
    ELSE [reader |-> reader, cmd_frame |-> None]

\* apply_query_adjust(kernel, reader, direction): the reader afterwards and
\* the frame returned (None when no QAdjust is sent)
apply_query_adjust(reader, direction, half_up) ==
    IF /\ reader.use_query_adjust
       /\ reader.state \in ArbitrationStates
       /\ 0 <= reader.q /\ reader.q <= MaxQ
    THEN LET q_fp == static_query_adjust(reader.q_fp, direction, reader.q)
             new_q == Round(q_fp, half_up)
         IN  IF Abs(reader.q - new_q) = 1
             THEN [reader |-> set_state([reader EXCEPT !.q_fp = q_fp,
                                                        !.q = new_q],
                                        "QAdjust"),
                   cmd_frame |-> "QAdjust"]
             ELSE [reader |-> [reader EXCEPT !.q_fp = q_fp],
                   cmd_frame |-> None]
    ELSE [reader |-> reader, cmd_frame |-> None]

\* the slot feedback of _no_tag_response (direction -1) and of
\* _multiple_tag_response (direction +1): apply_query_adjust, and
\* reader.timeout() when it returned no frame
query_feedback(reader, direction, next, half_up) ==
    LET a == apply_query_adjust(reader, direction, half_up)
    IN  IF a.cmd_frame # None THEN a
        ELSE LET r == timeout(a.reader, next)
             IN  [reader |-> r, cmd_frame |-> r.state]

_no_tag_response(reader, next, half_up) ==
    query_feedback(reader, -1, next, half_up)

\* ------------------------------------------------------------------------
\* The Model object and its configuration
\* ------------------------------------------------------------------------
\* times, in model-time units: the generation interval and the tag lifetime
\* (travel distance / speed; longer than the interval, so tags overlap),
\* the reader's powered-on and powered-off durations, the position update
\* interval, the duration of a reader command and of a tag reply
GenerationInterval == 1
Lifetime == 5
PowerOnDuration == 4
PowerOffDuration == 1
UpdateInterval == 3
CommandDuration == 1
ReplyDuration == 1
\* the intervals of the antenna switch of a reader with several antennas:
\* inside the powered-on interval, and as long as it
AntennaSwitchIntervals == {2, PowerOnDuration}
\* number of tags a run simulates (num_tags)
NumTagsValues == {0, 1, 2, 3}
\* Q of a default run (RFIDDefaults.q), which is also ReaderParams.q_fp
DefaultQ == 5

\* the values of the option q of the runs: reader.q is the option, reader.q_fp
\* the default of ReaderParams whatever the option
QOptions == {DefaultQ - 1, DefaultQ}

\* create_model(**click_params): the Model with its reader and generator.
\* tags are numbered in creation order; collision_count[tag] is the counter
\* of the tag's statistics record; num_transactions numbers the Transaction
\* objects built so far and stands for their identity
create_model(q, q_fp, useadjust, num_tags) ==
    [reader |-> [state |-> "OFF", q |-> q, q_fp |-> q_fp,
                 use_query_adjust |-> useadjust,
                 power_on_duration |-> PowerOnDuration,
                 power_off_duration |-> PowerOffDuration,
                 num_antennas |-> 1, antenna_index |-> 0,
                 antenna_switch_interval |-> PowerOnDuration,
                 antenna_switch_event_id |-> Nothing],
     tags |-> {},
     transaction |-> Nothing,
     statistics |-> [num_tags_created |-> 0, collision_count |-> <<>>],
     generator |-> [interval |-> GenerationInterval,
                    lifetime |-> Lifetime,
                    max_tags_generated |-> num_tags,
                    num_tags_generated |-> 0],
     max_tags_num |-> num_tags,
     num_tags_simulated |-> 0,
     update_interval |-> UpdateInterval,
     num_transactions |-> 0]

\* a Kernel as run_model builds it: no ceilings, no finalizer, the Model as
\* context
InitKernel(model) ==
    /\ event_list = <<>>
    /\ event_dict = {}
    /\ next_id = 0
    /\ sim_time = 0
    /\ max_sim_time = Nothing
    /\ max_real_time = Nothing
    /\ max_num_events = Nothing
    /\ finalize = FALSE
    /\ user_stop = FALSE
    /\ stop_reason = None
    /\ stop_msg = ""
    /\ num_events_served = Nothing
    /\ lhandler = None
    /\ context = model
    /\ pc = "start"
    /\ cur = Nothing
    /\ fin_ret = Unbound
    /\ result = Nothing
    /\ last_call = NoCall
    /\ dispatched = {}
    /\ cancelled = {}
    /\ fin_calls = 0

\* ------------------------------------------------------------------------
\* The Q-adjustment controller on its own: slot feedback in any order
\* ------------------------------------------------------------------------
\* a reader in any state of the inventory cycle with any q and q_fp
InitQ ==
    \E q \in QValues, q_fp \in QFpValues, useadjust \in BOOLEAN,
       state \in ReaderStates \ {"OFF"} :
        LET model == create_model(q, q_fp, useadjust, 1)
        IN  InitKernel([model EXCEPT !.reader.state = state])

\* direction of a slot feedback: -1 from _no_tag_response (empty slot),
\* +1 from _multiple_tag_response (collision)
Directions == {-1, 1}

\* one slot feedback applied to the reader
SlotFeedback(direction, next, half_up) ==
    LET r == query_feedback(context.reader, direction, next, half_up)
    IN  /\ context' = [context EXCEPT !.reader = r.reader]
        /\ last_call' = [op |-> "apply_query_adjust",
                         direction |-> direction,
                         reader |-> context.reader,
                         new_q |-> Round(static_query_adjust(
                                       context.reader.q_fp, direction,
                                       context.reader.q), half_up),
                         cmd_frame |-> r.cmd_frame]
        /\ UNCHANGED <<queue_vars, sim_time, config_vars, stop_vars,
                       run_vars, pc, cur, dispatched, cancelled>>

\* a single reply in between moves the reader out of arbitration and back
OneTagResponse(next) ==
    /\ context' = [context EXCEPT !.reader = receive(context.reader, next)]
    /\ last_call' = [op |-> "receive"]
    /\ UNCHANGED <<queue_vars, sim_time, config_vars, stop_vars,
                   run_vars, pc, cur, dispatched, cancelled>>

NextQ ==
    \/ \E direction \in Directions, next \in ArbitrationStates,
          half_up \in BOOLEAN : SlotFeedback(direction, next, half_up)
    \/ \E next \in ArbitrationStates : OneTagResponse(next)

SpecQ == InitQ /\ [][NextQ]_vars

\* ------------------------------------------------------------------------
\* The handlers of the RFID model (pysim/models/rfid/handlers.py)
\* ------------------------------------------------------------------------
\* number of events one RFID run may schedule (caps itertools.count)
MaxEvents == 24

\* A handler runs to completion inside one iteration of the run loop.  It is
\* an operator on the record k of what it can reach through the facade: the
\* queue, the clock, the stop request and the context; k.ret is the value
\* the last facade call returned, k.error the exception that ended it.
KernelState ==
    [heap |-> event_list, dict |-> event_dict, next |-> next_id,
     time |-> sim_time, user_stop |-> user_stop,
     stop_reason |-> stop_reason, stop_msg |-> stop_msg,
     ctx |-> context, cancelled |-> cancelled,
     ret |-> Nothing, error |-> None]

\* the heap entry of event_id with the args of its task (handler, args, msg)
WithArgs(heap, event_id, args) ==
    [i \in 1..Len(heap) |->
        IF heap[i].id = event_id
        THEN [time |-> heap[i].time, id |-> heap[i].id,
              task |-> heap[i].task, args |-> args]
        ELSE heap[i]]

\* kernel.schedule(delay, handler, args)
schedule(k, delay, handler, args) ==
    IF delay # Nothing
    THEN LET q == QueuePush(k.heap, k.dict, k.next, k.time + Val(delay),
                            handler)
         IN  [k EXCEPT !.heap = WithArgs(q.heap, q.event_id, args),
                       !.dict = q.dict,
                       !.next = q.next,
                       !.ret = Some(q.event_id)]
    ELSE [k EXCEPT !.ret = Nothing]

\* kernel.call(handler, args)
call(k, handler, args) == schedule(k, Some(0), handler, args)

\* a cancel that leaves the event in the queue
cancel_Ignored(k, event_id) == k

\* kernel.cancel(event_id)
cancel(k, event_id) ==
    LET r == KernelCancel(k.heap, k.dict, event_id)
    IN  [k EXCEPT !.heap = r.q.heap,
                  !.dict = r.q.dict,
                  !.cancelled = IF r.ret = 1 THEN @ \cup {Val(event_id)}
                                ELSE @]

\* kernel.stop()
stop(k, msg) ==
    [k EXCEPT !.stop_reason = STOPPED, !.user_stop = TRUE, !.stop_msg = msg]

\* Transaction(medium, reader, reader_frame, tag_frames, now): the command,
\* the tags that answered it and their replies, the duration of the exchange
\* and the time the reply window opens (None without a reply)
Transaction(serial, command, tag_frames, now) ==
    [serial |-> serial,
     command |-> command,
     tags |-> tag_frames,
     replies |-> tag_frames,
     duration |-> CommandDuration
                  + (IF tag_frames = {} THEN 0 ELSE ReplyDuration),
     reply_start_time |-> IF tag_frames = {} THEN Nothing
                          ELSE Some(now + CommandDuration),
     timeout_event_id |-> Nothing,
     response_start_event_id |-> Nothing]

\* Transaction.received_tag_frame(medium, time): the tag whose reply the
\* reader received, when exactly one tag answered
received_tag_frame(transaction) ==
    IF Cardinality(transaction.replies) = 1
    THEN Some(CHOOSE tag \in transaction.replies : TRUE)
    ELSE Nothing

\* PowerControlMode.min_powered_on_interval / powered_off_interval of the
\* periodic mode
min_powered_on_interval(reader) == Some(reader.power_on_duration)
powered_off_interval(reader) == Some(reader.power_off_duration)

\* Statistics.get_tag_record(tag): whether the tag has a record
get_tag_record(statistics, tag) == tag \in 1..Len(statistics.collision_count)

\* start_simulation(kernel)
start_simulation(k) ==
    LET k1 == schedule(k, Some(k.ctx.generator.interval), "generate_tag",
                       Nothing)
        k2 == schedule(k1, Some(k.ctx.update_interval), "update_positions",
                       Nothing)
    IN  call(k2, "turn_reader_on", Nothing)

\* turn_reader_on(kernel, reader); tag_frames are the tags that answer the
\* Query
turn_reader_on(k, tag_frames) ==
    LET reader == turn_on(k.ctx.reader)
        serial == k.ctx.num_transactions + 1
        transaction == Transaction(serial, reader.state, tag_frames, k.time)
        ka == [k EXCEPT !.ctx.reader = reader]
        kb == schedule(ka, Some(reader.antenna_switch_interval),
                       "switch_reader_antenna", Nothing)
        k0 == IF reader.num_antennas > 1
              THEN [kb EXCEPT !.ctx.reader.antenna_switch_event_id = kb.ret]
              ELSE ka
        k1 == schedule([k0 EXCEPT !.ctx.num_transactions = serial],
                       Some(transaction.duration), "finish_transaction",
                       Some(serial))
        k2 == [k1 EXCEPT !.ctx.transaction =
                   Some([transaction EXCEPT !.timeout_event_id = k1.ret])]
        k3 == IF transaction.reply_start_time # Nothing
              THEN schedule(k2,
                            Some(Val(transaction.reply_start_time) - k2.time),
                            "update_power_at_response_start", Some(serial))
              ELSE k2
    IN  IF k.ctx.transaction # Nothing
        THEN [k0 EXCEPT !.error = "AssertionError"]
        ELSE schedule(k3, min_powered_on_interval(k3.ctx.reader),
                      "turn_reader_off", Nothing)

\* a turn_reader_off that leaves the timeout of the transaction pending
turn_reader_off_KeepsTimeout(k) ==
    LET k0 == [k EXCEPT !.ctx.reader = turn_off(k.ctx.reader)]
        k1 == IF k0.ctx.transaction # Nothing
              THEN [cancel(k0, Val(k0.ctx.transaction).response_start_event_id)
                       EXCEPT !.ctx.transaction = Nothing]
              ELSE k0
    IN  schedule(cancel(k1, k1.ctx.reader.antenna_switch_event_id),
                 powered_off_interval(k1.ctx.reader),
                 "turn_reader_on", Nothing)

\* a turn_reader_off that cancels the events of the transaction and leaves
\* ctx.transaction in place
turn_reader_off_KeepsTransaction(k) ==
    LET k0 == [k EXCEPT !.ctx.reader = turn_off(k.ctx.reader)]
        k1 == IF k0.ctx.transaction # Nothing
              THEN LET transaction == Val(k0.ctx.transaction)
                   IN  cancel(cancel(k0, transaction.response_start_event_id),
                              transaction.timeout_event_id)
              ELSE k0
    IN  schedule(cancel(k1, k1.ctx.reader.antenna_switch_event_id),
                 powered_off_interval(k1.ctx.reader),
                 "turn_reader_on", Nothing)

\* a turn_reader_off that powers the reader on again after the powered-on
\* interval
turn_reader_off_OnInterval(k) ==
    LET k0 == [k EXCEPT !.ctx.reader = turn_off(k.ctx.reader)]
        k1 == IF k0.ctx.transaction # Nothing
              THEN LET transaction == Val(k0.ctx.transaction)
                   IN  [cancel(cancel(k0, transaction.response_start_event_id),
                               transaction.timeout_event_id)
                           EXCEPT !.ctx.transaction = Nothing]
              ELSE k0
    IN  schedule(cancel(k1, k1.ctx.reader.antenna_switch_event_id),
                 min_powered_on_interval(k1.ctx.reader),
                 "turn_reader_on", Nothing)

\* a turn_reader_off that leaves the antenna switch pending
turn_reader_off_KeepsAntennaSwitch(k) ==
    LET k0 == [k EXCEPT !.ctx.reader = turn_off(k.ctx.reader)]
        k1 == IF k0.ctx.transaction # Nothing
              THEN LET transaction == Val(k0.ctx.transaction)
                   IN  [cancel(cancel(k0, transaction.response_start_event_id),
                               transaction.timeout_event_id)
                           EXCEPT !.ctx.transaction = Nothing]
              ELSE k0
    IN  schedule(k1, powered_off_interval(k1.ctx.reader), "turn_reader_on",
                 Nothing)

\* turn_reader_off(kernel, reader); antenna_switch_event_id is None for a
\* reader with one antenna
turn_reader_off(k) ==
    LET k0 == [k EXCEPT !.ctx.reader = turn_off(k.ctx.reader)]
        k1 == IF k0.ctx.transaction # Nothing
              THEN LET transaction == Val(k0.ctx.transaction)
                   IN  [cancel(cancel(k0, transaction.response_start_event_id),
                               transaction.timeout_event_id)
                           EXCEPT !.ctx.transaction = Nothing]
              ELSE k0
    IN  schedule(cancel(k1, k1.ctx.reader.antenna_switch_event_id),
                 powered_off_interval(k1.ctx.reader),
                 "turn_reader_on", Nothing)

\* a generate_tag without the check of the maximum
generate_tag_Unlimited(k) ==
    LET generator == k.ctx.generator
        tag == generator.num_tags_generated + 1
        k0 == [k EXCEPT
                 !.ctx.tags = @ \cup {tag},
                 !.ctx.statistics.num_tags_created = @ + 1,
                 !.ctx.statistics.collision_count = Append(@, 0),
                 !.ctx.generator.num_tags_generated = @ + 1]
        k1 == schedule(k0, Some(generator.lifetime), "remove_tag", Some(tag))
    IN  schedule(k1, Some(generator.interval), "generate_tag", Nothing)

\* generate_tag(kernel, generator); the new tag is numbered by the count of
\* tags generated, create_tag_record gives it a record with counter 0
generate_tag(k) ==
    LET generator == k.ctx.generator
        tag == generator.num_tags_generated + 1
        k0 == [k EXCEPT
                 !.ctx.tags = @ \cup {tag},
                 !.ctx.statistics.num_tags_created = @ + 1,
                 !.ctx.statistics.collision_count = Append(@, 0),
                 !.ctx.generator.num_tags_generated = @ + 1]
        k1 == schedule(k0, Some(generator.lifetime), "remove_tag", Some(tag))
    IN  IF /\ 0 <= generator.max_tags_generated
           /\ generator.max_tags_generated <= generator.num_tags_generated
        THEN k
        ELSE schedule(k1, Some(generator.interval), "generate_tag", Nothing)

\* a remove_tag that does not count the tag as simulated
remove_tag_Uncounted(k, tag) ==
    IF tag \notin k.ctx.tags
    THEN [k EXCEPT !.error = "ValueError"]
    ELSE [k EXCEPT !.ctx.tags = @ \ {tag}]

\* remove_tag(kernel, tag); max_tags_num is a number in every run built by
\* create_model
remove_tag(k, tag) ==
    IF tag \notin k.ctx.tags
    THEN [k EXCEPT !.error = "ValueError"]
    ELSE LET k0 == [k EXCEPT !.ctx.tags = @ \ {tag},
                             !.ctx.num_tags_simulated = @ + 1]
         IN  IF k0.ctx.num_tags_simulated >= k0.ctx.max_tags_num
             THEN stop(k0, "")
             ELSE k0

\* Reader.select_next_antenna(): the antennas are taken in turn
select_next_antenna(reader) ==
    [reader EXCEPT !.antenna_index = (@ + 1) % reader.num_antennas]

\* switch_reader_antenna(kernel, reader)
switch_reader_antenna(k) ==
    LET k0 == [k EXCEPT !.ctx.reader = select_next_antenna(k.ctx.reader)]
        k1 == schedule(k0, Some(k0.ctx.reader.antenna_switch_interval),
                       "switch_reader_antenna", Nothing)
    IN  [k1 EXCEPT !.ctx.reader.antenna_switch_event_id = k1.ret]

\* update_positions(kernel)
update_positions(k) ==
    schedule(k, Some(k.ctx.update_interval), "update_positions", Nothing)

\* a _multiple_tag_response that counts the collision for every tag with a
\* record, in the transaction or not
_multiple_tag_response_AllTags(ctx, transaction, next, half_up) ==
    LET f == query_feedback(ctx.reader, 1, next, half_up)
    IN  [ctx |-> [ctx EXCEPT !.statistics.collision_count =
                                [tag \in DOMAIN @ |-> @[tag] + 1],
                             !.reader = f.reader],
         cmd_frame |-> f.cmd_frame,
         ran |-> {"_multiple_tag_response"}]

\* _multiple_tag_response(kernel, ctx, reader, transaction): the context
\* afterwards and the frame returned
_multiple_tag_response(ctx, transaction, next, half_up) ==
    LET counted ==
            [tag \in 1..Len(ctx.statistics.collision_count) |->
                IF /\ tag \in transaction.tags
                   /\ get_tag_record(ctx.statistics, tag)
                THEN ctx.statistics.collision_count[tag] + 1
                ELSE ctx.statistics.collision_count[tag]]
        f == query_feedback(ctx.reader, 1, next, half_up)
    IN  [ctx |-> [ctx EXCEPT !.statistics.collision_count = counted,
                             !.reader = f.reader],
         cmd_frame |-> f.cmd_frame,
         ran |-> {"_multiple_tag_response"}]

\* a finish_transaction that tests `cmd_frame is None` no more: the empty
\* slot is handled after a collision as well
Resolve_NoTagAfterCollision(ctx, transaction, next, half_up) ==
    LET none == [ctx |-> ctx, cmd_frame |-> None, ran |-> {}]
        m == IF Cardinality(transaction.replies) > 1
             THEN _multiple_tag_response(ctx, transaction, next, half_up)
             ELSE none
        frame == received_tag_frame(transaction)
    IN  IF frame # Nothing
        THEN LET reader == receive(m.ctx.reader, next)
             IN  [ctx |-> [m.ctx EXCEPT !.reader = reader],
                  cmd_frame |-> reader.state,
                  ran |-> m.ran \cup {"_one_tag_response"}]
        ELSE LET f == _no_tag_response(m.ctx.reader, next, half_up)
             IN  [ctx |-> [m.ctx EXCEPT !.reader = f.reader],
                  cmd_frame |-> f.cmd_frame,
                  ran |-> m.ran \cup {"_no_tag_response"}]

\* the three branches of finish_transaction: the context afterwards, the
\* command frame chosen and the response handlers that ran
Resolve(ctx, transaction, next, half_up) ==
    LET none == [ctx |-> ctx, cmd_frame |-> None, ran |-> {}]
        m == IF Cardinality(transaction.replies) > 1
             THEN _multiple_tag_response(ctx, transaction, next, half_up)
             ELSE none
        frame == received_tag_frame(transaction)
    IN  IF frame # Nothing
        THEN LET reader == receive(m.ctx.reader, next)
             IN  [ctx |-> [m.ctx EXCEPT !.reader = reader],
                  cmd_frame |-> reader.state,
                  ran |-> m.ran \cup {"_one_tag_response"}]
        ELSE IF m.cmd_frame = None
        THEN LET f == _no_tag_response(m.ctx.reader, next, half_up)
             IN  [ctx |-> [m.ctx EXCEPT !.reader = f.reader],
                  cmd_frame |-> f.cmd_frame,
                  ran |-> m.ran \cup {"_no_tag_response"}]
        ELSE m

\* finish_transaction(kernel, transaction) for the transaction numbered
\* serial; tag_frames are the tags that answer the next command
finish_transaction(k, serial, tag_frames, next, half_up) ==
    IF k.ctx.transaction = Nothing \/ Val(k.ctx.transaction).serial # serial
    THEN [k EXCEPT !.error = "AssertionError"]
    ELSE LET transaction == Val(k.ctx.transaction)
             r == Resolve(k.ctx, transaction, next, half_up)
             new_serial == k.ctx.num_transactions + 1
             new == Transaction(new_serial, r.cmd_frame, tag_frames, k.time)
             k1 == schedule([k EXCEPT !.ctx = [r.ctx EXCEPT
                                        !.num_transactions = new_serial]],
                            Some(transaction.duration), "finish_transaction",
                            Some(new_serial))
             k2 == [k1 EXCEPT !.ctx.transaction =
                        Some([new EXCEPT !.timeout_event_id = k1.ret])]
         IN  IF transaction.reply_start_time # Nothing
             THEN schedule(k2,
                           Some(Val(transaction.reply_start_time) - k2.time),
                           "update_power_at_response_start", Some(serial))
             ELSE k2

\* update_power_at_response_start(kernel, transaction): powers and positions
\* only; response_start_event_id of the transaction is None already
update_power_at_response_start(k, serial) == k

\* ------------------------------------------------------------------------
\* A run of the RFID model (configurator.run_model)
\* ------------------------------------------------------------------------
\* the Kernel of run_model with a Model of create_model as context; the
\* reader has the antenna create_model attaches, or one more
InitRfid ==
    \E q \in QOptions, num_tags \in NumTagsValues, useadjust \in BOOLEAN,
       num_antennas \in {1, 2}, interval \in AntennaSwitchIntervals :
        /\ num_antennas = 1 => interval = PowerOnDuration
        /\ InitKernel([create_model(q, DefaultQ * QFpScale, useadjust,
                                    num_tags)
                          EXCEPT !.reader.num_antennas = num_antennas,
                                 !.reader.antenna_switch_interval = interval])

\* the tags a run may create
TagIds == 1..(CHOOSE n \in NumTagsValues : \A m \in NumTagsValues : m <= n)

\* max_real_time is None in these runs: the wall clock is never read
WallClock == CHOOSE rt \in RealTimeReadings : TRUE

\* the initializer: start_simulation runs and returns to build_runner
StartSimulation ==
    /\ pc = "initializer"
    /\ LET k == start_simulation(KernelState)
       IN  /\ event_list' = k.heap
           /\ event_dict' = k.dict
           /\ next_id' = k.next
           /\ stop_reason' = IF Empty(k.dict) THEN NO_MORE_EVENTS
                             ELSE k.stop_reason
           /\ context' = k.ctx
    /\ pc' = "loop"
    /\ last_call' = [op |-> "start_simulation"]
    /\ UNCHANGED <<sim_time, config_vars, user_stop, stop_msg, run_vars, cur,
                   dispatched, cancelled>>

\* the event the run loop pops next, with the args of its task
NextEvent ==
    LET r == PopLive(event_list)
    IN  [time |-> r.item.time, event_id |-> r.item.id, task |-> r.item.task,
         args |-> r.item.args]

\* the run loop is about to call handler: the loop condition holds and the
\* earliest live event carries it
Popped(handler) ==
    /\ pc = "loop"
    /\ ~Empty(event_dict)
    /\ ~StopConditions(WallClock).stop
    /\ next_id < MaxEvents
    /\ NextEvent.task = handler

\* what the handler of the popped event finds: the event is off the queue
\* and the clock is at its time
AtDispatch ==
    LET p == QueuePop(event_list, event_dict)
    IN  [KernelState EXCEPT !.heap = p.heap, !.dict = p.dict,
                            !.time = p.time,
                            !.stop_reason = StopConditions(WallClock).reason]

\* one iteration of the run loop: the handler ran from AtDispatch to k and
\* returned (or raised k.error); observed is what the step is remembered by
Iteration(k, observed) ==
    /\ event_list' = k.heap
    /\ event_dict' = k.dict
    /\ next_id' = k.next
    /\ sim_time' = k.time
    /\ user_stop' = k.user_stop
    /\ stop_reason' = k.stop_reason
    /\ stop_msg' = k.stop_msg
    /\ context' = k.ctx
    /\ cancelled' = k.cancelled
    /\ dispatched' = dispatched \cup {NextEvent.event_id}
    /\ cur' = Nothing
    /\ last_call' = [op |-> NextEvent.task, event |-> NextEvent,
                     before |-> context, first_id |-> next_id,
                     observed |-> observed]
    /\ IF k.error = None
       THEN /\ pc' = "loop"
            /\ num_events_served' = num_events_served + 1
            /\ lhandler' = NextEvent.task
       ELSE /\ pc' = k.error
            /\ UNCHANGED <<num_events_served, lhandler>>
    /\ UNCHANGED <<config_vars, fin_ret, result, fin_calls>>

TurnReaderOn(tag_frames) ==
    /\ Popped("turn_reader_on")
    /\ tag_frames \subseteq context.tags
    /\ Iteration(turn_reader_on(AtDispatch, tag_frames), {})

TurnReaderOff ==
    /\ Popped("turn_reader_off")
    /\ Iteration(turn_reader_off(AtDispatch), {})

GenerateTag ==
    /\ Popped("generate_tag")
    /\ Iteration(generate_tag(AtDispatch), {})

RemoveTag ==
    /\ Popped("remove_tag")
    /\ Iteration(remove_tag(AtDispatch, Val(NextEvent.args)), {})

SwitchReaderAntenna ==
    /\ Popped("switch_reader_antenna")
    /\ Iteration(switch_reader_antenna(AtDispatch), {})

UpdatePositions ==
    /\ Popped("update_positions")
    /\ Iteration(update_positions(AtDispatch), {})

FinishTransaction(tag_frames, next, half_up) ==
    /\ Popped("finish_transaction")
    /\ tag_frames \subseteq context.tags
    /\ Iteration(finish_transaction(AtDispatch, Val(NextEvent.args),
                                    tag_frames, next, half_up),
                 IF context.transaction = Nothing THEN {}
                 ELSE Resolve(context, Val(context.transaction), next,
                              half_up).ran)

UpdatePowerAtResponseStart ==
    /\ Popped("update_power_at_response_start")
    /\ Iteration(update_power_at_response_start(AtDispatch,
                                                Val(NextEvent.args)), {})

NextRfid ==
    \/ RunInitializer
    \/ StartSimulation
    \/ \E tag_frames \in SUBSET TagIds :
          TurnReaderOn(tag_frames)
    \/ TurnReaderOff
    \/ GenerateTag
    \/ RemoveTag
    \/ SwitchReaderAntenna
    \/ UpdatePositions
    \/ \E tag_frames \in SUBSET TagIds, next \in ArbitrationStates,
          half_up \in BOOLEAN : FinishTransaction(tag_frames, next, half_up)
    \/ UpdatePowerAtResponseStart
    \/ \E rt \in RealTimeReadings : LoopExit(rt)
    \/ FinalizeAndYield

SpecRfid == InitRfid /\ [][NextRfid]_vars

\* ------------------------------------------------------------------------
\* The EventQueue on its own (as src/test/simulator/test_queue.py drives it):
\* push, pop and cancel in any order, pop on an empty queue included
\* ------------------------------------------------------------------------
\* times and tasks the caller pushes
QueueTimes == {1, 2}
QueueTasks == {"cat", "dog"}

\* EventQueue.__len__
QueueLen(dict) == Cardinality(dict)

\* a queue just constructed; no kernel runs
InitQueue == InitKernel(Model)

rest_vars ==
    <<sim_time, config_vars, stop_vars, run_vars, context, pc, cur>>

\* queue.push(time, task)
QPush(time, task) ==
    /\ next_id < MaxIds
    /\ LET q == QueuePush(event_list, event_dict, next_id, time, task)
       IN  /\ event_list' = q.heap
           /\ event_dict' = q.dict
           /\ next_id' = q.next
           /\ last_call' = [op |-> "push", ret |-> Some(q.event_id),
                            raised |-> None]
    /\ UNCHANGED <<rest_vars, dispatched, cancelled>>

\* a pop that tests the heap for emptiness instead of the dict: heappop
\* runs out of entries when only cancelled ones are left
QPop_TestsHeap ==
    /\ IF event_list = <<>>
       THEN /\ last_call' = [op |-> "pop", ret |-> Nothing,
                             raised |-> "KeyError",
                             live |-> LiveEntries(event_list)]
            /\ UNCHANGED <<queue_vars, dispatched>>
       ELSE IF LiveEntries(event_list) = {}
       THEN /\ event_list' = <<>>
            /\ last_call' = [op |-> "pop", ret |-> Nothing,
                             raised |-> "IndexError",
                             live |-> LiveEntries(event_list)]
            /\ UNCHANGED <<event_dict, next_id, dispatched>>
       ELSE LET p == QueuePop(event_list, event_dict)
            IN  /\ event_list' = p.heap
                /\ event_dict' = p.dict
                /\ dispatched' = dispatched \cup {p.event_id}
                /\ last_call' = [op |-> "pop", ret |-> Some(p.event_id),
                                 raised |-> None,
                                 live |-> LiveEntries(event_list)]
                /\ UNCHANGED next_id
    /\ UNCHANGED <<rest_vars, cancelled>>

\* queue.pop(): KeyError when the queue is empty, else the earliest live
\* event; `live` keeps the live entries the call found
QPop ==
    /\ IF Empty(event_dict)
       THEN /\ last_call' = [op |-> "pop", ret |-> Nothing,
                             raised |-> "KeyError",
                             live |-> LiveEntries(event_list)]
            /\ UNCHANGED <<queue_vars, dispatched>>
       ELSE LET p == QueuePop(event_list, event_dict)
            IN  /\ event_list' = p.heap
                /\ event_dict' = p.dict
                /\ dispatched' = dispatched \cup {p.event_id}
                /\ last_call' = [op |-> "pop", ret |-> Some(p.event_id),
                                 raised |-> None,
                                 live |-> LiveEntries(event_list)]
                /\ UNCHANGED next_id
    /\ UNCHANGED <<rest_vars, cancelled>>

\* queue.cancel(event_id)
QCancel(event_id) ==
    /\ LET q == QueueCancel(event_list, event_dict, event_id)
       IN  /\ event_list' = q.heap
           /\ event_dict' = q.dict
           /\ cancelled' = IF q.dict # event_dict
                           THEN cancelled \cup {Val(event_id)}
                           ELSE cancelled
           /\ last_call' = [op |-> "cancel", id |-> event_id]
    /\ UNCHANGED <<next_id, rest_vars, dispatched>>

NextQueue ==
    \/ \E time \in QueueTimes, task \in QueueTasks : QPush(time, task)
    \/ QPop
    \/ \E i \in CancelArgs : QCancel(i)

SpecQueue == InitQueue /\ [][NextQueue]_vars

\* ------------------------------------------------------------------------
\* The mc2 tag-state model (models/mc2): a tag walks Arbitrate, Reply,
\* Acknowledged, Secured and is absorbed in Final, then starts over
\* ------------------------------------------------------------------------
\* STATE_CODES
Arbitrate == 0
Reply == 1
Acknowledged == 2
Secured == 3
Final == 4
StateCodes == {Arbitrate, Reply, Acknowledged, Secured, Final}

\* transition probabilities of the four tag states, in percent
Probabilities == {<<100, 100, 100, 100>>, <<50, 100, 100, 100>>,
                  <<100, 100, 50, 100>>}
\* processing times of the four tag states, in model time units
ProcessingTimes == {<<1, 1, 1, 1>>, <<1, 2, 4, 8>>, <<2, 1, 1, 1>>}
\* values of max_transmisions
MaxTransmisions == {1, 2, 3}
\* values random.random() may return, in percent
RandomDraws == {0, 99}

\* Config(probability, processing_time, max_transmisions)
Configs ==
    [probability : Probabilities, processing_time : ProcessingTimes,
     max_transmisions : MaxTransmisions]

\* Model(config): the five State objects, field by field; Final has
\* probability 0, processing time 0 and no maximum.  The Packet handed from
\* state to state is only logged and is left out.
Mc2Model(config) ==
    [probability |-> [n \in StateCodes |->
                        IF n = Final THEN 0 ELSE config.probability[n + 1]],
     interval |-> [n \in StateCodes |->
                        IF n = Final THEN 0
                        ELSE config.processing_time[n + 1]],
     max_transmisions |-> [n \in StateCodes |->
                        IF n = Final THEN Nothing
                        ELSE Some(config.max_transmisions)],
     num_pakage_sent |-> [n \in StateCodes |-> 0],
     config |-> config]

\* State.calculate_next_state
calculate_next_state(name) == name + 1

\* State.handle_timeout of the state called name; draw is random.random()
handle_timeout(k, name, draw) ==
    LET m == k.ctx
    IN  IF m.max_transmisions[name] = Nothing
           \/ m.num_pakage_sent[name] < Val(m.max_transmisions[name])
        THEN IF draw > m.probability[name]
             THEN schedule(k, Some(m.interval[name]), "handle_timeout",
                           Some(name))
             ELSE call(k, "handle_receive", Some(calculate_next_state(name)))
        ELSE stop(k, "")

\* State.handle_receive of the state called name
handle_receive(k, name) ==
    LET m == [k.ctx EXCEPT !.num_pakage_sent[name] = @ + 1]
        k1 == [k EXCEPT !.ctx = m]
    IN  IF name = Final
        THEN call(k1, "handle_timeout", Some(Arbitrate))
        ELSE schedule(k1, Some(m.interval[name]), "handle_timeout",
                      Some(name))

\* handlers.initialize
initialize(k, config) ==
    call([k EXCEPT !.ctx = Mc2Model(config)], "handle_timeout",
         Some(Arbitrate))

\* the Kernel of run_model: a finalizer is registered, no limit is set and
\* the context is empty until the initializer runs
InitMc2 ==
    /\ event_list = <<>>
    /\ event_dict = {}
    /\ next_id = 0
    /\ sim_time = 0
    /\ max_sim_time = Nothing
    /\ max_real_time = Nothing
    /\ max_num_events = Nothing
    /\ finalize = TRUE
    /\ user_stop = FALSE
    /\ stop_reason = None
    /\ stop_msg = ""
    /\ num_events_served = Nothing
    /\ lhandler = None
    /\ context = Nothing
    /\ pc = "start"
    /\ cur = Nothing
    /\ fin_ret = Unbound
    /\ result = Nothing
    /\ last_call = NoCall
    /\ dispatched = {}
    /\ cancelled = {}
    /\ fin_calls = 0

\* the initializer: initialize(sim, config) runs and returns to build_runner
Initialize(config) ==
    /\ pc = "initializer"
    /\ LET k == initialize(KernelState, config)
       IN  /\ event_list' = k.heap
           /\ event_dict' = k.dict
           /\ next_id' = k.next
           /\ stop_reason' = IF Empty(k.dict) THEN NO_MORE_EVENTS
                             ELSE k.stop_reason
           /\ context' = k.ctx
    /\ pc' = "loop"
    /\ last_call' = [op |-> "initialize"]
    /\ UNCHANGED <<sim_time, config_vars, user_stop, stop_msg, run_vars, cur,
                   dispatched, cancelled>>

HandleTimeout(draw) ==
    /\ Popped("handle_timeout")
    /\ Iteration(handle_timeout(AtDispatch, Val(NextEvent.args), draw), {})

HandleReceive ==
    /\ Popped("handle_receive")
    /\ Iteration(handle_receive(AtDispatch, Val(NextEvent.args)), {})

NextMc2 ==
    \/ RunInitializer
    \/ \E config \in Configs : Initialize(config)
    \/ \E draw \in RandomDraws : HandleTimeout(draw)
    \/ HandleReceive
    \/ \E rt \in RealTimeReadings : LoopExit(rt)
    \/ FinalizeAndYield

SpecMc2 == InitMc2 /\ [][NextMc2]_vars

\* ------------------------------------------------------------------------
\* The channel model (models/rfid/channel.py): the guards of the conversion
\* and error-rate functions
\* ------------------------------------------------------------------------
\* the floats the functions are applied to, in increasing order, and nan
FloatLadder ==
    <<"-inf", "-1.0", "0.0", "1e-16", "1e-15", "1e-9", "1e-8", "0.5", "1.0",
      "inf">>

\* a < b on floats: false when either is nan
Less(a, b) ==
    /\ a # "nan"
    /\ b # "nan"
    /\ LET Rank(x) == CHOOSE i \in 1..Len(FloatLadder) : FloatLadder[i] = x
       IN  Rank(a) < Rank(b)

\* values of the keyword arguments
Tolerances == {"1e-15", "1e-9", "1e-8"}
Distributions == {"rayleigh", "awgn"}

\* to_log(value, dbm, tol); the logarithm itself is not computed
to_log(value, dbm, tol) ==
    IF value # "nan" /\ tol # "nan" /\ ~Less(value, tol)
    THEN "10*log10(value)+30*int(dbm)"
    ELSE "-inf"

\* lin2db(value_linear)
lin2db(value_linear) ==
    IF value_linear # "nan" /\ ~Less(value_linear, "1e-15")
    THEN "10*log10(value_linear)"
    ELSE "-inf"

\* an snr_full that saturates for a non-positive SNR only
snr_full_NonPositiveOnly(snr, tol) ==
    IF Less(snr, "0.0") \/ snr = "0.0"
    THEN "0.5"
    ELSE "miller*snr*symbol*bandwidth*cos(sync_angle)**2"

\* snr_full(snr=..., tol=...); the product itself is not computed
snr_full(snr, tol) ==
    IF Less(snr, tol)
    THEN "0.5"
    ELSE "miller*snr*symbol*bandwidth*cos(sync_angle)**2"

\* ber(snr, distr, tol); the error rate itself is not computed
ber(snr, distr, tol) ==
    IF Less(snr, tol)
    THEN "0.5"
    ELSE IF distr = "rayleigh"
         THEN "0.5-1/t+2/pi*arctan(t)/t"
         ELSE "2*t*(1-t)"

\* a value to convert; nothing else of the kernel is used
InitChannel ==
    \E value \in {FloatLadder[i] : i \in 1..Len(FloatLadder)} \cup {"nan"} :
        InitKernel([value |-> value])

ToLog(dbm, tol) ==
    /\ last_call' = [op |-> "to_log", value |-> context.value, dbm |-> dbm,
                     tol |-> tol,
                     ret |-> to_log(context.value, dbm, tol)]
    /\ UNCHANGED <<queue_vars, sim_time, config_vars, stop_vars, run_vars,
                   context, pc, cur, dispatched, cancelled>>

Lin2db ==
    /\ last_call' = [op |-> "lin2db", value |-> context.value,
                     tol |-> "1e-15", ret |-> lin2db(context.value)]
    /\ UNCHANGED <<queue_vars, sim_time, config_vars, stop_vars, run_vars,
                   context, pc, cur, dispatched, cancelled>>

SnrFull(tol) ==
    /\ last_call' = [op |-> "snr_full", value |-> context.value, tol |-> tol,
                     ret |-> snr_full(context.value, tol)]
    /\ UNCHANGED <<queue_vars, sim_time, config_vars, stop_vars, run_vars,
                   context, pc, cur, dispatched, cancelled>>

Ber(distr, tol) ==
    /\ last_call' = [op |-> "ber", value |-> context.value, distr |-> distr,
                     tol |-> tol,
                     ret |-> ber(context.value, distr, tol)]
    /\ UNCHANGED <<queue_vars, sim_time, config_vars, stop_vars, run_vars,
                   context, pc, cur, dispatched, cancelled>>

NextChannel ==
    \/ \E dbm \in BOOLEAN, tol \in Tolerances : ToLog(dbm, tol)
    \/ Lin2db
    \/ \E tol \in Tolerances : SnrFull(tol)
    \/ \E distr \in Distributions, tol \in Tolerances : Ber(distr, tol)

SpecChannel == InitChannel /\ [][NextChannel]_vars

\* ------------------------------------------------------------------------
\* two_ray_pathloss (models/rfid/channel.py).  Coordinates are integers; a
\* square root, a radiation pattern, a reflection coefficient and the final
\* sum of the two rays are not evaluated: the attenuation is given as the
\* quantities it is computed from, so that equal records mean equal
\* attenuations.  The wavelength is the same in every call.
\* ------------------------------------------------------------------------
\* an antenna: what two_ray_pathloss is given about one end of the link, a
\* position in front of the wall x = 0, the direction of the main lobe, a
\* velocity and a radiation pattern
Antennas ==
    [pos : {<<1, 0, 0>>, <<2, 1, 0>>, <<1, 1, 1>>, <<3, 0, 2>>},
     dir_theta : {<<1, 0, 0>>, <<0, 1, 0>>, <<0, 0, -1>>},
     velocity : {<<0, 0, 0>>, <<1, 0, 0>>, <<0, 1, 0>>},
     rp : {"rp_dipole", "rp_isotropic"}]

\* values of the polarization given to the reflection coefficient
Polarizations == {0, 1}

\* np.dot and the difference of two vectors
Dot(u, v) == u[1] * v[1] + u[2] * v[2] + u[3] * v[3]
Minus(u, v) == <<u[1] - v[1], u[2] - v[2], u[3] - v[3]>>

\* v / np.linalg.norm(v), kept as v and its squared length
Normalized(v) == [vec |-> v, norm2 |-> Dot(v, v)]
\* np.dot(n, w) for a normalised n: Dot(n.vec, w) / sqrt(n.norm2)
NormalizedDot(n, w) == [num |-> Dot(n.vec, w), norm2 |-> n.norm2]

\* a two_ray_pathloss that takes the receiver's NLoS cosine on the ray as
\* it leaves the transmitter
two_ray_pathloss_UnmirroredRay(time, ground_reflection, polarization, tx, rx) ==
    LET rx_pos_refl == <<0 - rx.pos[1], rx.pos[2], rx.pos[3]>>
        d0_vector == Minus(rx.pos, tx.pos)
        d1_vector == Minus(rx_pos_refl, tx.pos)
        d0_vector_tx_n == Normalized(d0_vector)
        d0_vector_rx_n == Normalized(Minus(<<0, 0, 0>>, d0_vector))
        d1_vector_tx_n == Normalized(d1_vector)
        d1_vector_rx_n ==
            Normalized(<<0 - d1_vector[1], d1_vector[2], d1_vector[3]>>)
        tx_azimuth_0 == NormalizedDot(d0_vector_tx_n, tx.dir_theta)
        rx_azimuth_0 == NormalizedDot(d0_vector_rx_n, rx.dir_theta)
        tx_azimuth_1 == NormalizedDot(d1_vector_tx_n, tx.dir_theta)
        rx_azimuth_1 ==
            LET c == NormalizedDot(d1_vector_tx_n, rx.dir_theta)
            IN  [c EXCEPT !.num = (0 - 1) * @]
        grazing_angle ==
            LET c == NormalizedDot(d1_vector_rx_n, <<1, 0, 0>>)
            IN  [c EXCEPT !.num = (0 - 1) * @]
        relative_velocity == Minus(rx.velocity, tx.velocity)
        velocity_pr_0 == NormalizedDot(d0_vector_tx_n, relative_velocity)
        velocity_pr_1 == NormalizedDot(d1_vector_tx_n, relative_velocity)
    IN  [los |-> [g |-> {<<tx.rp, tx_azimuth_0>>, <<rx.rp, rx_azimuth_0>>},
                  d2 |-> Dot(d0_vector, d0_vector),
                  shift |-> [velocity_pr_0 EXCEPT !.num = time * @]],
         nlos |-> [g |-> {<<tx.rp, tx_azimuth_1>>, <<rx.rp, rx_azimuth_1>>},
                   d2 |-> Dot(d1_vector, d1_vector),
                   shift |-> [velocity_pr_1 EXCEPT !.num = time * @]],
         r1 |-> [by |-> ground_reflection, cosine |-> grazing_angle,
                 polarization |-> polarization]]

\* two_ray_pathloss(time, ground_reflection, wavelen, tx_*, rx_*,
\* polarization=...): the LoS ray, the NLoS ray through the mirrored
\* receiver and the reflection coefficient r1 of the NLoS ray
two_ray_pathloss(time, ground_reflection, polarization, tx, rx) ==
    LET rx_pos_refl == <<0 - rx.pos[1], rx.pos[2], rx.pos[3]>>
        d0_vector == Minus(rx.pos, tx.pos)
        d1_vector == Minus(rx_pos_refl, tx.pos)
        d0_vector_tx_n == Normalized(d0_vector)
        d0_vector_rx_n == Normalized(Minus(<<0, 0, 0>>, d0_vector))
        d1_vector_tx_n == Normalized(d1_vector)
        d1_vector_rx_n ==
            Normalized(<<0 - d1_vector[1], d1_vector[2], d1_vector[3]>>)
        tx_azimuth_0 == NormalizedDot(d0_vector_tx_n, tx.dir_theta)
        rx_azimuth_0 == NormalizedDot(d0_vector_rx_n, rx.dir_theta)
        tx_azimuth_1 == NormalizedDot(d1_vector_tx_n, tx.dir_theta)
        rx_azimuth_1 ==
            LET c == NormalizedDot(d1_vector_rx_n, rx.dir_theta)
            IN  [c EXCEPT !.num = (0 - 1) * @]
        grazing_angle ==
            LET c == NormalizedDot(d1_vector_rx_n, <<1, 0, 0>>)
            IN  [c EXCEPT !.num = (0 - 1) * @]
        relative_velocity == Minus(rx.velocity, tx.velocity)
        velocity_pr_0 == NormalizedDot(d0_vector_tx_n, relative_velocity)
        velocity_pr_1 == NormalizedDot(d1_vector_tx_n, relative_velocity)
    IN  [los |-> [g |-> {<<tx.rp, tx_azimuth_0>>, <<rx.rp, rx_azimuth_0>>},
                  d2 |-> Dot(d0_vector, d0_vector),
                  shift |-> [velocity_pr_0 EXCEPT !.num = time * @]],
         nlos |-> [g |-> {<<tx.rp, tx_azimuth_1>>, <<rx.rp, rx_azimuth_1>>},
                   d2 |-> Dot(d1_vector, d1_vector),
                   shift |-> [velocity_pr_1 EXCEPT !.num = time * @]],
         r1 |-> [by |-> ground_reflection, cosine |-> grazing_angle,
                 polarization |-> polarization]]

\* a reader and a tag at different places, a reflection function and the
\* time since the start of reception; nothing else of the kernel is used
InitPathloss ==
    \E reader \in Antennas, tag \in Antennas,
       ground_reflection \in {"reflection", "reflection_constant"},
       time \in {0, 1} :
        /\ reader.pos # tag.pos
        /\ InitKernel([reader |-> reader, tag |-> tag,
                       ground_reflection |-> ground_reflection,
                       time |-> time])

\* the pathloss of the link from the reader to the tag; last_call keeps the
\* latest result of either direction
ReaderToTag(polarization) ==
    /\ last_call' =
          [op |-> "two_ray_pathloss",
           forward |-> Some(two_ray_pathloss(context.time,
                                context.ground_reflection, polarization,
                                context.reader, context.tag)),
           backward |-> IF last_call.op = "two_ray_pathloss"
                        THEN last_call.backward ELSE Nothing]
    /\ UNCHANGED <<queue_vars, sim_time, config_vars, stop_vars, run_vars,
                   context, pc, cur, dispatched, cancelled>>

\* the pathloss of the link from the tag to the reader
TagToReader(polarization) ==
    /\ last_call' =
          [op |-> "two_ray_pathloss",
           forward |-> IF last_call.op = "two_ray_pathloss"
                       THEN last_call.forward ELSE Nothing,
           backward |-> Some(two_ray_pathloss(context.time,
                                context.ground_reflection, polarization,
                                context.tag, context.reader))]
    /\ UNCHANGED <<queue_vars, sim_time, config_vars, stop_vars, run_vars,
                   context, pc, cur, dispatched, cancelled>>

NextPathloss ==
    \/ \E polarization \in Polarizations : ReaderToTag(polarization)
    \/ \E polarization \in Polarizations : TagToReader(polarization)

SpecPathloss == InitPathloss /\ [][NextPathloss]_vars

\* ---------------------------------------------------------------------
\* The registered Q-adjustment strategies under the controller's call
\* adjust_fn(reader.q_fp, direction, reader.q)
\* ---------------------------------------------------------------------

\* q_fp is held here in ten-thousandths, fine enough for the magnitudes of
\* dynamic_query_adjust; one tenth of static_query_adjust is FinePerTenth
FineScale == 10000
FinePerTenth == FineScale \div QFpScale

QueryAdjustStrategy == {"static", "dynamic"}

\* math.copysign(magnitude, sign) for integer sign: an int 0 is +0.0
copysign(magnitude, sign) == IF sign < 0 THEN 0 - magnitude ELSE magnitude

\* dynamic_query_adjust(q_fp, q, delta):
\* magnitude = max(0.1, 0.5 / (1 + 0.04 * q)), and the result is
\* min(15, max(0, q_fp + copysign(magnitude, delta)))
dynamic_query_adjust(q_fp, q, delta) ==
    LET magnitude == Max(FineScale \div 10,
                         (50 * FineScale) \div (100 + 4 * q))
    IN  Min(MaxQ * FineScale, Max(0, q_fp + copysign(magnitude, delta)))

\* QUERY_ADJUST_FUNCTIONS[strategy](a, b, c): the arguments are passed by
\* position, whatever the parameters of the strategy are called
QUERY_ADJUST_FUNCTIONS(strategy, a, b, c) ==
    IF strategy = "static"
    THEN static_query_adjust(a \div FinePerTenth, b, c) * FinePerTenth
    ELSE dynamic_query_adjust(a, b, c)

\* a reader's estimate, on the grid of tenths, and its q
InitStrategy ==
    \E q_fp \in 0..(MaxQ * QFpScale), q \in 0..MaxQ :
        InitKernel([q_fp |-> q_fp * FinePerTenth, q |-> q])

\* adjust_fn = QUERY_ADJUST_FUNCTIONS.get(strategy, static_query_adjust);
\* adjust_fn(reader.q_fp, direction, reader.q)
AdjustFn(strategy, direction) ==
    /\ last_call' = [op |-> "adjust_fn", strategy |-> strategy,
                     direction |-> direction,
                     ret |-> QUERY_ADJUST_FUNCTIONS(strategy, context.q_fp,
                                                    direction, context.q)]
    /\ UNCHANGED <<queue_vars, sim_time, config_vars, stop_vars, run_vars,
                   context, pc, cur, dispatched, cancelled>>

NextStrategy ==
    \E strategy \in QueryAdjustStrategy, direction \in {-1, 1} :
        AdjustFn(strategy, direction)

SpecStrategy == InitStrategy /\ [][NextStrategy]_vars

\* ------------------------------------------------------------------------
\* Properties of the Q-adjustment controller
\* ------------------------------------------------------------------------
\* the controller acted on the last feedback: Q-adjustment is enabled and
\* the reader was in an arbitration state
ControllerActed ==
    /\ last_call.op = "apply_query_adjust"
    /\ last_call.reader.use_query_adjust
    /\ last_call.reader.state \in ArbitrationStates

\* C12: whatever feedback arrives, in whatever order, the reader's integer q
\* stays in [0, 15] and its estimate q_fp stays in [0, 15].
C12_QBounds ==
    /\ context.reader.q \in 0..MaxQ
    /\ context.reader.q_fp \in 0..(MaxQ * QFpScale)

\* C12 witness: a collision arrived with q_fp less than one step below 15
\* and q_fp was held at 15, with q = 15
C12_Witness ==
    /\ ControllerActed
    /\ last_call.direction = 1
    /\ last_call.reader.q_fp < MaxQ * QFpScale
    /\ last_call.reader.q_fp + Delta > MaxQ * QFpScale
    /\ context.reader.q_fp = MaxQ * QFpScale
    /\ context.reader.q = MaxQ

\* C13: a feedback step changes q, and sends QAdjust, only when round(q_fp)
\* of the updated estimate differs from q by exactly 1, and q then becomes
\* that rounded value; when the difference is 0 or at least 2, q stays, no
\* QAdjust is sent and only q_fp moves.
C13_QAdjustOnlyByOne ==
    last_call.op = "apply_query_adjust" =>
        LET before == last_call.reader
            after == context.reader
            sent == last_call.cmd_frame = "QAdjust"
            difference == Abs(before.q - last_call.new_q)
        IN  /\ (after.q # before.q \/ sent) =>
                 /\ difference = 1
                 /\ after.q = last_call.new_q
                 /\ sent
            /\ difference # 1 =>
                 /\ after.q = before.q
                 /\ ~sent
                 /\ after.state # "QAdjust"

\* C13 witness: the controller moved q_fp while round(q_fp) was at least 2
\* away from q
C13_Witness ==
    /\ ControllerActed
    /\ Abs(last_call.reader.q - last_call.new_q) >= 2
    /\ context.reader.q_fp # last_call.reader.q_fp
    /\ context.reader.q = last_call.reader.q

\* C14: feedback moves q only in the triggering direction: a collision never
\* lowers q and an empty slot never raises it (so that q is non-decreasing
\* under successive collisions on its way to 15).
C14_FeedbackDirection ==
    last_call.op = "apply_query_adjust" =>
        /\ last_call.direction = 1 => context.reader.q >= last_call.reader.q
        /\ last_call.direction = -1 => context.reader.q <= last_call.reader.q

\* ------------------------------------------------------------------------
\* Properties of the RFID handlers
\* ------------------------------------------------------------------------
\* live events of the queue that carry handler
LiveEventsOf(handler) == {e \in LiveEntries(event_list) : e.task = handler}

\* the last iteration of the run loop ran handler to its end
Ran(handler) ==
    /\ last_call.op = handler
    /\ pc \notin {"AssertionError", "ValueError"}

\* C11: at most one finish_transaction timeout is pending at any time, it is
\* the timeout of the current ctx.transaction, and no assertion of the
\* handlers (`transaction is ctx.transaction` in finish_transaction,
\* `ctx.transaction is None` in turn_reader_on) ever fails.
C11_OneTransaction ==
    /\ pc # "AssertionError"
    /\ Cardinality(LiveEventsOf("finish_transaction")) <= 1
    /\ \A e \in LiveEventsOf("finish_transaction") :
          /\ context.transaction # Nothing
          /\ e.args = Some(Val(context.transaction).serial)
          /\ Some(e.id) = Val(context.transaction).timeout_event_id

\* C11 witness: finish_transaction ran for the current transaction after a
\* power-off had cancelled a timeout, with tags created and removed and the
\* positions updated in between
C11_Witness ==
    /\ Ran("finish_transaction")
    /\ cancelled # {}
    /\ context.num_tags_simulated > 0
    /\ context.tags # {}
    /\ sim_time > context.update_interval

\* C15: when the timeout of a transaction fires, exactly one response
\* handler runs, chosen by the number of replies: none gives
\* _no_tag_response (q_fp does not rise), one gives _one_tag_response, more
\* than one gives _multiple_tag_response (q_fp does not fall).
C15_OneResolutionClass ==
    Ran("finish_transaction") =>
        LET transaction == Val(last_call.before.transaction)
            replies == Cardinality(transaction.replies)
        IN  /\ replies = 0 =>
                 /\ last_call.observed = {"_no_tag_response"}
                 /\ context.reader.q_fp <= last_call.before.reader.q_fp
            /\ replies = 1 =>
                 /\ last_call.observed = {"_one_tag_response"}
                 /\ context.reader.q_fp = last_call.before.reader.q_fp
            /\ replies > 1 =>
                 /\ last_call.observed = {"_multiple_tag_response"}
                 /\ context.reader.q_fp >= last_call.before.reader.q_fp

\* C15 witness: a transaction with two replies was resolved as a collision
\* and the estimate of Q went up
C15_Witness ==
    /\ Ran("finish_transaction")
    /\ Cardinality(Val(last_call.before.transaction).replies) = 2
    /\ last_call.observed = {"_multiple_tag_response"}
    /\ context.reader.q_fp > last_call.before.reader.q_fp

\* C16: a transaction that finishes with more than one reply adds exactly 1
\* to the collision counter of each of its tags, and no other step of any
\* handler changes a collision counter (so the counters never decrease).
C16_CollisionCounters ==
    (pc = "loop" /\ "before" \in DOMAIN last_call) =>
        LET old == last_call.before.statistics.collision_count
            new == context.statistics.collision_count
            collided(tag) ==
                /\ last_call.op = "finish_transaction"
                /\ Cardinality(Val(last_call.before.transaction).replies) > 1
                /\ tag \in Val(last_call.before.transaction).tags
        IN  \A tag \in 1..Len(old) :
                new[tag] = old[tag] + (IF collided(tag) THEN 1 ELSE 0)

\* C16 witness: a collision of tags 1 and 2 was resolved and counted once
\* for each of them, and not for tag 3 that took no part in it
C16_Witness ==
    /\ Ran("finish_transaction")
    /\ Val(last_call.before.transaction).tags = {1, 2}
    /\ last_call.before.statistics.collision_count = <<0, 0, 0>>
    /\ context.statistics.collision_count = <<1, 1, 0>>

\* C17: whenever a new Transaction is built at time now, by turn_reader_on
\* or by finish_transaction, its timeout is scheduled at now plus the new
\* transaction's own duration.
C17_TimeoutAtOwnDuration ==
    (Ran("turn_reader_on") \/ Ran("finish_transaction")) =>
        LET new == Val(context.transaction)
        IN  \E e \in LiveEventsOf("finish_transaction") :
                /\ Some(e.id) = new.timeout_event_id
                /\ e.args = Some(new.serial)
                /\ e.time = sim_time + new.duration

\* C18: after turn_reader_off, ctx.transaction is cleared and no event of
\* the transaction it tore down, neither its timeout nor its power refresh,
\* is left live in the queue, so none can be dispatched afterwards.
C18_TornDownTransaction ==
    Ran("turn_reader_off") =>
        /\ context.transaction = Nothing
        /\ last_call.before.transaction # Nothing =>
             \A e \in LiveEntries(event_list) :
                e.task \in {"finish_transaction",
                            "update_power_at_response_start"}
                   => e.args # Some(Val(last_call.before.transaction).serial)

\* C18 witness: turn_reader_off tore down a transaction some tag had
\* answered and cancelled its timeout
C18_Witness ==
    /\ Ran("turn_reader_off")
    /\ last_call.before.transaction # Nothing
    /\ Val(last_call.before.transaction).tags # {}
    /\ Val(Val(last_call.before.transaction).timeout_event_id) \in cancelled

\* C19: the generator never creates more tags than its maximum, and a
\* generate_tag that finds the maximum reached creates no tag and schedules
\* nothing.
C19_GeneratorMaximum ==
    /\ context.generator.num_tags_generated
          <= context.generator.max_tags_generated
    /\ (/\ Ran("generate_tag")
        /\ last_call.before.generator.num_tags_generated
              >= last_call.before.generator.max_tags_generated) =>
          /\ context = last_call.before
          /\ next_id = last_call.first_id

\* C19 witness: generate_tag was dispatched after the second of two tags
\* had been created, and created nothing
C19_Witness ==
    /\ Ran("generate_tag")
    /\ last_call.before.generator.num_tags_generated = 2
    /\ context.statistics.num_tags_created = 2

\* C20: with max_tags_num = N >= 1 the N-th remove_tag stops the run: no
\* handler runs after it, and the run ends returning exit reason STOPPED
\* with num_tags_simulated = N.
C20_StopsAtLastRemoval ==
    context.max_tags_num >= 1 =>
        /\ context.num_tags_simulated <= context.max_tags_num
        /\ (context.num_tags_simulated = context.max_tags_num
            /\ pc = "loop") => last_call.op = "remove_tag"
        /\ (Exited /\ pc # "finalize") =>
              /\ pc = "done"
              /\ result[1].exit_reason = STOPPED
              /\ context.num_tags_simulated = context.max_tags_num

\* C21: a run with num_tags = 0 and no ceilings runs out of events after the
\* power cycling of the reader has settled: by the time MaxEvents events
\* have been scheduled no live event is left in the queue, so the loop
\* exits with NO_MORE_EVENTS.
C21_ZeroTagsRunOut ==
    (/\ context.max_tags_num = 0
     /\ pc = "loop"
     /\ next_id >= MaxEvents) => LiveEntries(event_list) = {}

\* ------------------------------------------------------------------------
\* Further properties of the kernel
\* ------------------------------------------------------------------------
\* the live event that precedes every other live event in (time, id) order
Earliest ==
    CHOOSE e \in LiveEntries(event_list) :
        \A f \in LiveEntries(event_list) :
            e.time < f.time \/ (e.time = f.time /\ e.id <= f.id)

\* the loop condition as far as it depends on the state of the run alone:
\* a live event is queued, the simulation-time limit is not passed and
\* nobody called stop()
MayDispatch ==
    /\ LiveEntries(event_list) # {}
    /\ ~(max_sim_time # Nothing /\ sim_time > Val(max_sim_time))
    /\ ~user_stop

\* the step of the run loop is the one the state of the run determines:
\* the earliest live event is dispatched at its time when MayDispatch
\* holds, and the loop is left otherwise
DeterminedStep ==
    /\ MayDispatch => /\ pc' = "handler"
                      /\ cur'.id = Earliest.id
                      /\ cur'.handler = Earliest.task
                      /\ sim_time' = Earliest.time
    /\ ~MayDispatch => /\ pc' = "finalize"
                       /\ sim_time' = sim_time
    /\ num_events_served' = num_events_served
    /\ context' = context

\* C22: the kernel is deterministic: at every turn of the run loop, what
\* the loop does next (which event it dispatches and at what time, or that
\* it exits) is determined by the state the earlier calls left, so that two
\* runs with the same initializer, handlers and choices dispatch the same
\* events and end with the same counts, time and context.
C22_Deterministic == [][pc = "loop" => DeterminedStep]_vars

\* C22 amended: the same for runs without a real-time limit
C22_DeterministicWithoutRealTimeLimit ==
    [][(pc = "loop" /\ max_real_time = Nothing) => DeterminedStep]_vars

\* C22 witness: in a run without a real-time limit the loop dispatched one
\* of two live events scheduled for the same time
C22_Witness ==
    /\ pc = "handler"
    /\ max_real_time = Nothing
    /\ \E e \in LiveEntries(event_list) : e.time = cur.time

\* the step is a call() of the running callback
CallStep == last_call'.op = "call" /\ next_id' = next_id + 1

\* the step is the dispatch of an event that call() submitted
CalledDispatch == pc = "loop" /\ pc' = "handler" /\ cur'.handler \in CalledHandlers

\* C23: call(handler) is schedule(0, handler): the event it submits is due
\* at the current clock value and the clock does not move; it is submitted
\* behind every event already pending, so it is dispatched after those due
\* at the same time, and when it is dispatched the clock is at its time and
\* no live event that is due earlier, or due at that time and submitted
\* before it, is left in the queue.
C23_CallIsScheduleZero ==
    [][/\ CallStep =>
            /\ sim_time' = sim_time
            /\ LiveEntries(event_list') = LiveEntries(event_list) \cup
                  {e \in LiveEntries(event_list') : e.id = next_id}
            /\ \E e \in LiveEntries(event_list') :
                  /\ e.id = next_id
                  /\ e.time = sim_time
                  /\ e.task \in CalledHandlers
            /\ \A f \in LiveEntries(event_list) : f.id < next_id
       /\ CalledDispatch =>
            /\ sim_time' = cur'.time
            /\ \A f \in LiveEntries(event_list') :
                  \/ f.time > cur'.time
                  \/ (f.time = cur'.time /\ f.id > cur'.id)]_vars

\* C23 witness: an event submitted by call() is being handled while an
\* event due later is pending, after an event submitted before it was
\* dispatched
C23_Witness ==
    /\ pc = "handler"
    /\ cur.handler \in CalledHandlers
    /\ \E f \in LiveEntries(event_list) : f.time > cur.time
    /\ \E i \in dispatched : i < cur.id

C25_CancelNotPending ==
    [][(last_call'.op = "cancel" /\ ~last_call'.pending) =>
          /\ last_call'.ret = 0
          /\ event_list' = event_list
          /\ event_dict' = event_dict
          /\ pc' = pc]_vars

\* C25 witness: a handler cancelled an event that had been dispatched and
\* got 0, with another event live in the queue
C25_Witness ==
    /\ last_call.op = "cancel"
    /\ last_call.id # Nothing
    /\ Val(last_call.id) \in dispatched
    /\ last_call.ret = 0
    /\ LiveEntries(event_list) # {}

\* C26: the length and the emptiness of the queue count the live events
\* only, pushes minus pops minus successful cancels; pop raises KeyError
\* exactly when no live event is left, cancelled entries in the heap or
\* not, and otherwise returns the earliest live event and removes it.
C26_LiveLength ==
    /\ QueueLen(event_dict) = Cardinality(LiveEntries(event_list))
    /\ QueueLen(event_dict)
          = next_id - Cardinality(dispatched) - Cardinality(cancelled)
    /\ Empty(event_dict) <=> LiveEntries(event_list) = {}
    /\ last_call.op = "pop" =>
         /\ last_call.raised = (IF last_call.live = {} THEN "KeyError"
                                ELSE None)
         /\ last_call.live # {} =>
              \E e \in last_call.live :
                 /\ last_call.ret = Some(e.id)
                 /\ \A f \in last_call.live :
                       e.time < f.time \/ (e.time = f.time /\ e.id <= f.id)
                 /\ LiveEntries(event_list) = last_call.live \ {e}

\* C26 witness: pop raised KeyError on a queue whose heap held cancelled
\* entries only, after an earlier pop had returned an event
C26_Witness ==
    /\ last_call.op = "pop"
    /\ last_call.raised = "KeyError"
    /\ event_list # <<>>
    /\ dispatched # {}

\* of the ceilings only max_real_time is configured
OnlyRealTimeLimit ==
    /\ max_real_time # Nothing
    /\ max_sim_time = Nothing
    /\ max_num_events = Nothing

\* C27: with only max_real_time set, a run whose model never runs out of
\* events and never calls stop() leaves the loop with stop reason
\* REACHED_REAL_TIME_LIMIT and returns it as exit reason; the limit is
\* evaluated at the top of the loop only, so the reason is never set and
\* the loop never left while a handler is running: a handler that has
\* started returns to the loop.
C27_RealTimeLimit ==
    [][OnlyRealTimeLimit =>
          /\ pc = "handler" => pc' \in {"handler", "loop"}
          /\ (stop_reason' = REACHED_REAL_TIME_LIMIT
              /\ stop_reason # REACHED_REAL_TIME_LIMIT) =>
                (pc = "loop" /\ pc' = "finalize")
          /\ (/\ pc = "loop"
              /\ pc' = "finalize"
              /\ LiveEntries(event_list) # {}
              /\ ~user_stop) => stop_reason' = REACHED_REAL_TIME_LIMIT
          /\ (pc = "finalize" /\ pc' = "done") =>
                result'[1].exit_reason = stop_reason]_vars

\* C27 witness: a run with only max_real_time set returned
\* REACHED_REAL_TIME_LIMIT after it had dispatched an event, with an event
\* still pending and stop() never called
C27_Witness ==
    /\ pc = "done"
    /\ OnlyRealTimeLimit
    /\ result[1].exit_reason = REACHED_REAL_TIME_LIMIT
    /\ dispatched # {}
    /\ LiveEntries(event_list) # {}
    /\ ~user_stop

\* ------------------------------------------------------------------------
\* Claims about the mc2 tag-state model
\* ------------------------------------------------------------------------
\* C28: when all four transition probabilities are 1 and max_transmisions is
\* M, a finished run reports a total simulated time whose quotient by M is
\* within 10% of the sum of the four states' processing times.
C28_AverageTimeToAbsorption ==
    (/\ pc = "done"
     /\ stop_reason = STOPPED
     /\ context.config.probability = <<100, 100, 100, 100>>)
    => LET M == context.config.max_transmisions
           t == context.config.processing_time
           total == M * (t[1] + t[2] + t[3] + t[4])
           diff == result[1].sim_time - total
       IN  /\ 10 * diff <= total
           /\ 10 * (0 - diff) <= total

\* ------------------------------------------------------------------------
\* Claims about the channel model
\* ------------------------------------------------------------------------
\* C29: snr_full and ber return exactly 0.5 for every SNR below the
\* tolerance, and to_log and lin2db return minus infinity for every value
\* below their tolerance; no call ends in an error.
C29_Sentinels ==
    /\ (/\ last_call.op \in {"snr_full", "ber"}
        /\ Less(last_call.value, last_call.tol)) => last_call.ret = "0.5"
    /\ (/\ last_call.op \in {"to_log", "lin2db"}
        /\ Less(last_call.value, last_call.tol)) => last_call.ret = "-inf"

\* a positive SNR below the tolerance was answered with 0.5
C29_Witness ==
    /\ last_call.op = "snr_full"
    /\ last_call.value = "1e-9"
    /\ last_call.tol = "1e-8"
    /\ last_call.ret = "0.5"

\* C30: with zero relative velocity, the pathloss from the reader to the tag
\* and the pathloss from the tag to the reader (positions, directions and
\* radiation patterns swapped) are computed from the same ray lengths,
\* antenna gains and phases, and from reflection coefficients taken at the
\* same grazing angle: they differ at most through the polarization given
\* to the reflection coefficient.
C30_ChannelSymmetry ==
    (/\ last_call.op = "two_ray_pathloss"
     /\ last_call.forward # Nothing
     /\ last_call.backward # Nothing
     /\ context.reader.velocity = context.tag.velocity)
    => LET f == Val(last_call.forward)
           b == Val(last_call.backward)
       IN  /\ f.los = b.los
           /\ f.nlos = b.nlos
           /\ f.r1.by = b.r1.by
           /\ f.r1.cosine = b.r1.cosine

\* both directions computed for antennas that differ in position, direction
\* and pattern, with different polarizations
C30_Witness ==
    /\ last_call.op = "two_ray_pathloss"
    /\ last_call.forward # Nothing
    /\ last_call.backward # Nothing
    /\ context.reader.velocity = context.tag.velocity
    /\ context.reader.dir_theta # context.tag.dir_theta
    /\ context.reader.rp # context.tag.rp
    /\ context.reader.pos[2] # context.tag.pos[2]
    /\ Val(last_call.forward).r1.polarization
          # Val(last_call.backward).r1.polarization
    /\ Val(last_call.forward).nlos = Val(last_call.backward).nlos

\* ------------------------------------------------------------------------
\* Further properties of the RFID handlers
\* ------------------------------------------------------------------------
\* C31: the power refresh scheduled by the handler that has just built a
\* transaction is never enqueued at a time earlier than the clock: the delay
\* it was scheduled with is not negative.
C31_RefreshNotInPast ==
    (/\ last_call.op \in {"turn_reader_on", "finish_transaction"}
     /\ pc = "loop")
    => \A e \in LiveEventsOf("update_power_at_response_start") :
          e.id >= last_call.first_id => e.time >= sim_time

\* C33: in periodic power mode the power toggles alternate: start_simulation
\* leaves turn_reader_on pending at time 0, turn_reader_on leaves
\* turn_reader_off pending one on-duration later, turn_reader_off leaves
\* turn_reader_on pending one off-duration later; at most one toggle is
\* pending at any time, and it is turn_reader_on exactly while the reader
\* is off.
C33_PowerAlternation ==
    LET on == LiveEventsOf("turn_reader_on")
        off == LiveEventsOf("turn_reader_off")
    IN  /\ Cardinality(on \cup off) <= 1
        /\ pc = "loop" =>
              IF context.reader.state = "OFF" THEN off = {} ELSE on = {}
        /\ (last_call.op = "start_simulation" /\ pc = "loop") =>
              \E e \in on : e.time = 0
        /\ Ran("turn_reader_on") =>
              \E e \in off :
                 e.time = last_call.event.time
                          + context.reader.power_on_duration
        /\ Ran("turn_reader_off") =>
              \E e \in on :
                 e.time = last_call.event.time
                          + context.reader.power_off_duration

\* C33 witness: the reader was powered on for the second time, one
\* off-duration after the power-off that followed the first power-on
C33_Witness ==
    /\ Ran("turn_reader_on")
    /\ last_call.event.time
          = context.reader.power_on_duration
            + context.reader.power_off_duration
    /\ \E e \in LiveEventsOf("turn_reader_off") :
          e.time = last_call.event.time + context.reader.power_on_duration

\* C34: turn_reader_on always finds ctx.transaction empty: its assertion
\* never fails, and while the reader is off there is no transaction and no
\* transaction timeout pending, whatever the order of power events and
\* timeouts that fall on the same time.
C34_PowerOnFindsNoTransaction ==
    /\ last_call.op = "turn_reader_on" =>
          /\ last_call.before.transaction = Nothing
          /\ pc # "AssertionError"
    /\ (pc = "loop" /\ context.reader.state = "OFF") =>
          /\ context.transaction = Nothing
          /\ LiveEventsOf("finish_transaction") = {}

\* C34 witness: the reader was powered on again after a power-off that tore
\* down a transaction and cancelled its timeout
C34_Witness ==
    /\ Ran("turn_reader_on")
    /\ last_call.event.time > 0
    /\ cancelled # {}
    /\ last_call.before.transaction = Nothing
    /\ context.transaction # Nothing
    /\ context.num_transactions > 2

\* ------------------------------------------------------------------------
\* The clock at dispatch
\* ------------------------------------------------------------------------
\* C32: an event scheduled with delay d >= 0 while the clock reads t is
\* entered in the queue with time t + d, a pending event keeps its time
\* until it is popped or cancelled, and when the run loop dispatches it the
\* clock is set to that time before the handler is invoked.
C32_DispatchedWhenDue ==
    [][/\ (/\ last_call'.op = "schedule"
           /\ next_id' = next_id + 1
           /\ Val(last_call'.delay) >= 0)
          => \E e \in LiveEntries(event_list') :
                /\ e.id = next_id
                /\ e.time = sim_time + Val(last_call'.delay)
       /\ \A e \in LiveEntries(event_list) :
             \A f \in LiveEntries(event_list') : f.id = e.id => f.time = e.time
       /\ (pc = "loop" /\ pc' = "handler")
          => \E e \in LiveEntries(event_list) :
                /\ e.id = cur'.id
                /\ e \notin LiveEntries(event_list')
                /\ sim_time' = e.time]_vars

\* C32 witness: an event scheduled one time unit ahead is being handled
\* with the clock at its time, later than the time it was scheduled at
C32_Witness ==
    /\ pc = "handler"
    /\ cur.handler \in ScheduledHandlers
    /\ cur.time > 0
    /\ sim_time = cur.time

\* ------------------------------------------------------------------------
\* Further properties of the Q-adjustment controller
\* ------------------------------------------------------------------------
\* C35: when Q-adjustment is disabled, or the reader is not in QUERY or
\* QREP, an empty slot or a collision leaves q and q_fp as they were and
\* sends no QAdjust: the command sent next is the one reader.timeout()
\* returns, and nothing but the reader's state has changed.
C35_NoAdjustmentOutsideArbitration ==
    (/\ last_call.op = "apply_query_adjust"
     /\ \/ ~last_call.reader.use_query_adjust
        \/ last_call.reader.state \notin ArbitrationStates)
    => /\ context.reader.q = last_call.reader.q
       /\ context.reader.q_fp = last_call.reader.q_fp
       /\ last_call.cmd_frame # "QAdjust"
       /\ context.reader.state # "QAdjust"
       /\ last_call.cmd_frame = context.reader.state
       /\ context.reader =
             [last_call.reader EXCEPT !.state = context.reader.state]

\* C35 witness: with Q-adjustment enabled, a collision arrived while the
\* reader was in ACK, with q_fp short of 15 and round(q_fp) next to q
C35_Witness ==
    /\ last_call.op = "apply_query_adjust"
    /\ last_call.reader.use_query_adjust
    /\ last_call.reader.state = "ACK"
    /\ last_call.direction = 1
    /\ Abs(last_call.reader.q - last_call.new_q) = 1
    /\ context.reader.q = last_call.reader.q
    /\ context.reader.q_fp = last_call.reader.q_fp

\* C36: a feedback step that starts with q = round(q_fp) ends with
\* q = round(q_fp): the estimate moves by less than 1, so its rounded value
\* moves by at most 1 and q follows it (a q_fp printed as x.5 lies on either
\* side of the half, q may be either neighbour).
C36_QFollowsEstimate ==
    [][(/\ last_call'.op = "apply_query_adjust"
        /\ \E half_up \in BOOLEAN :
              context.reader.q = Round(context.reader.q_fp, half_up))
       => /\ \E half_up \in BOOLEAN :
                context'.reader.q = Round(context'.reader.q_fp, half_up)
          /\ context'.reader.q_fp # context.reader.q_fp =>
                context'.reader.q = last_call'.new_q]_vars

\* C36 witness: starting from q = round(q_fp), a feedback moved the estimate
\* across a half and q followed it
C36_Witness ==
    /\ ControllerActed
    /\ \E half_up \in BOOLEAN :
          last_call.reader.q = Round(last_call.reader.q_fp, half_up)
    /\ context.reader.q # last_call.reader.q
    /\ context.reader.q = last_call.new_q
    /\ last_call.cmd_frame = "QAdjust"

\* C37: under the call adjust_fn(q_fp, direction, q), every registered
\* strategy returns a value within [0, 15] that is not below q_fp for
\* direction +1 (collision) and not above q_fp for direction -1 (empty
\* slot), for every q_fp and q in [0, 15].
C37_StrategiesInterchangeable ==
    last_call.op = "adjust_fn" =>
        /\ last_call.ret >= 0
        /\ last_call.ret <= MaxQ * FineScale
        /\ last_call.direction = 1 => last_call.ret >= context.q_fp
        /\ last_call.direction = -1 => last_call.ret <= context.q_fp

\* C38: with more than one antenna, at most one switch_reader_antenna event
\* is pending at any time and reader.antenna_switch_event_id is its id;
\* turn_reader_off cancels it, so none is pending while the reader is off
\* and switch_reader_antenna is only ever dispatched with the reader on.
C38_OneAntennaSwitch ==
    LET switches == LiveEventsOf("switch_reader_antenna")
    IN  context.reader.num_antennas > 1 =>
        /\ Cardinality(switches) <= 1
        /\ \A e \in switches :
              context.reader.antenna_switch_event_id = Some(e.id)
        /\ Ran("turn_reader_off") => switches = {}
        /\ (pc = "loop" /\ context.reader.state = "OFF") => switches = {}
        /\ last_call.op = "switch_reader_antenna" =>
              last_call.before.reader.state # "OFF"

\* C38 witness: a reader with two antennas switched to its second antenna,
\* and turn_reader_off then cancelled the switch that was pending
C38_Witness ==
    /\ context.reader.num_antennas = 2
    /\ context.reader.antenna_index = 1
    /\ Ran("turn_reader_off")
    /\ Val(last_call.before.reader.antenna_switch_event_id) \in cancelled
    /\ Val(last_call.before.reader.antenna_switch_event_id) \notin dispatched
    /\ LiveEventsOf("switch_reader_antenna") = {}

\* C39: in every reachable state the number of live tags is num_tags_created
\* minus num_tags_simulated; every live tag has exactly one remove_tag event
\* pending, at its creation time plus the generator's lifetime, and a tag
\* that was removed has none; remove_tag is never dispatched for a tag that
\* is not in the live-tag collection (tags.remove never raises ValueError).
C39_TagAccounting ==
    LET created == context.statistics.num_tags_created
        removals(tag) == {e \in LiveEventsOf("remove_tag") :
                             e.args = Some(tag)}
    IN  /\ Cardinality(context.tags)
              = created - context.num_tags_simulated
        /\ context.tags \subseteq 1..created
        /\ \A tag \in context.tags : Cardinality(removals(tag)) = 1
        /\ \A tag \in (1..created) \ context.tags : removals(tag) = {}
        /\ \A e \in LiveEventsOf("remove_tag") :
              \E tag \in context.tags : e.args = Some(tag)
        /\ (Ran("generate_tag") /\ created > last_call.before.statistics
                                                     .num_tags_created) =>
              \A e \in removals(created) :
                 /\ e.id >= last_call.first_id
                 /\ e.time = sim_time + context.generator.lifetime
        /\ \A tag \in context.tags : \A e \in removals(tag) :
              e.time = tag * context.generator.interval
                       + context.generator.lifetime
        /\ pc # "ValueError"
        /\ last_call.op = "remove_tag" =>
              Val(last_call.event.args) \in last_call.before.tags

\* C39 witness: a tag was removed at the end of its lifetime while a tag
\* created later is still live, its own removal pending
C39_Witness ==
    /\ Ran("remove_tag")
    /\ context.num_tags_simulated >= 1
    /\ context.tags # {}
    /\ \A tag \in context.tags :
          \E e \in LiveEventsOf("remove_tag") :
             e.args = Some(tag) /\ e.time > sim_time
====
